---- MODULE Spec2Model ----
(***************************************************************************)
(* InstallationManager (src/src/installation.ts) and the admin routes that *)
(* use it (src/src/routes/api.ts), as a state machine.                     *)
(*                                                                         *)
(* Every await of the source is a step boundary: an operation is a task    *)
(* that suspends at sandbox.startProcess, waitForProcess and getLogs, and   *)
(* tasks of different requests interleave at these points.  The container  *)
(* runs the started commands on its own: a command that was started but    *)
(* never awaited (mkdir, echo > manifest) takes effect in a later step.    *)
(***************************************************************************)
EXTENDS Integers, Sequences, FiniteSets, TLC

(* ------------------------------ bounds --------------------------------- *)

MaxCalls == 2          \* operations invoked in one behaviour

Calls == 1..MaxCalls
Mgrs == 1..MaxCalls    \* a call may construct its own InstallationManager

(* Target names are character sequences; the apostrophe is the character   *)
(* the shell commands built by string interpolation are sensitive to.     *)
Targets == { <<"a">>, <<"q", "'">> }

InstallOps == {"installPlugin", "installSkill"}
UninstallOps == {"uninstallPlugin", "uninstallSkill"}
LookupOps == {"getJob", "statusRoute"}
GatewayOps == {"restartRoute", "ensureRunning"}
Ops == InstallOps \cup UninstallOps \cup {"listInstalled"} \cup LookupOps
JobIds == 1..(MaxCalls + 1)

(* --------------------------- values ------------------------------------ *)

Undefined == [undefined |-> TRUE]
NoRet == [pending |-> TRUE]
NoManifest == [unset |-> TRUE]
NoError == [none |-> TRUE]

EmptyObject == [f \in {} |-> 0]                     \* the JSON value {}

(* Texts a file or a stdout can hold *)
TxtEmpty == [k |-> "empty"]                         \* ''
TxtGarbage == [k |-> "garbage"]                     \* not JSON
TxtJson(v) == [k |-> "json", v |-> v]               \* the JSON text of v
FileAbsent == [k |-> "absent"]                      \* no such file

Null == [null |-> TRUE]

(* Thrown values *)
StartError == [isError |-> TRUE, message |-> "start failed"]
LogsError == [isError |-> TRUE, message |-> "logs failed"]
TimeoutError == [isError |-> TRUE, message |-> "Timeout"]
SyntaxError == [isError |-> TRUE, message |-> "Unexpected token"]
NonError == [isError |-> FALSE, value |-> "rejected"]
StartRejections == {StartError, NonError}

(* new Date().toISOString() read by call c at program point `at`: every    *)
(* reading of the clock is named by the place and the call that read it.   *)
Stamp(c, at) == [call |-> c, at |-> at]

VARIABLES
    file,         \* content of MANIFEST_FILE in the container
    dirExists,    \* BACKUP_DIR exists in the container
    bg,           \* commands started and not awaited, not yet run
    wseq,         \* history: number of echo commands that have run
    activeJobs,   \* per manager: the job Map, in insertion order
    issued,       \* number of job ids generated so far
    pc, op, arg, mgr, jobRef,   \* per call: position, operation, argument
    proc,         \* per call: status of the install/uninstall process
    catProc,      \* per call: the cat process of getManifest
    manifest,     \* per call: local variable manifest
    cmdIdx,       \* per call: index of the write command being started
    ret,          \* per call: what the operation returned
    hist,         \* per call: history of the call (for the properties)
    gw,           \* ids of the gateway processes active in the container
    ens,          \* per call: position of its ensureMoltbotGateway task
    restart,      \* per call: locals of the gateway restart handler
    waiter,       \* one waitForProcess call, with the time it has waited
    env,          \* per call: the bindings c.env its request arrives with
    lookup,       \* the getJob / getAllJobs call that has just returned
    dev,          \* the devices request being handled (api.ts)
    note          \* the note tool call being executed

gatewayVars == << gw, ens, restart >>

vars == << file, dirExists, bg, wseq, activeJobs, issued, pc, op, arg,
           mgr, jobRef, proc, catProc, manifest, cmdIdx, ret, hist,
           gw, ens, restart, waiter, env,
                    lookup, dev, note >>

(* ------------------------- pure helpers -------------------------------- *)

SetField(r, name, val) ==
    [k \in DOMAIN r \cup {name} |-> IF k = name THEN val ELSE r[k]]

RECURSIVE CountQuotes(_)
CountQuotes(s) ==
    IF s = <<>> THEN 0
    ELSE (IF Head(s) = "'" THEN 1 ELSE 0) + CountQuotes(Tail(s))

(* error instanceof Error ? error.message : 'Unknown error' *)
ErrorMessage(e) == IF e.isError THEN e.message ELSE "Unknown error"

(* --- the job record and the job Map --- *)

randomUUIDRepeats(n) == 1

(* crypto.randomUUID(), given how many ids have been generated: an id no   *)
(* earlier call has received.                                              *)
randomUUID(n) == n + 1

NewJobCompleted(id, type, target, t) ==
    [id |-> id, type |-> type, target |-> target, status |-> "completed",
     startedAt |-> t, output |-> <<>>]

NewJob(id, type, target, t) ==
    [id |-> id, type |-> type, target |-> target, status |-> "installing",
     startedAt |-> t, output |-> <<>>]

JobType(o) == IF o = "installPlugin" THEN "plugin" ELSE "skill"

(* job.output = [logs.stdout || '', logs.stderr || ''] *)
JobOutput(logs) == << logs.stdout, logs.stderr >>

CompleteJobNoStamp(job, logs, t) ==
    SetField(SetField(job, "output", JobOutput(logs)), "status", "completed")

CompleteJob(job, logs, t) ==
    SetField(SetField(SetField(job, "output", JobOutput(logs)),
                      "status", "completed"), "completedAt", t)

FailJobKeepsStatus(job, e, t) ==
    SetField(SetField(job, "completedAt", t), "error", ErrorMessage(e))

FailJob(job, e, t) ==
    SetField(SetField(SetField(job, "status", "failed"),
                      "completedAt", t), "error", ErrorMessage(e))

HasJob(jobs, id) == \E i \in DOMAIN jobs : jobs[i].id = id

(* Map.set: a new key goes to the end, an existing key keeps its place *)
MapSet(jobs, job) ==
    IF HasJob(jobs, job.id)
    THEN [i \in DOMAIN jobs |-> IF jobs[i].id = job.id THEN job ELSE jobs[i]]
    ELSE Append(jobs, job)

(* Map.get *)
MapGet(jobs, id) ==
    IF HasJob(jobs, id)
    THEN jobs[CHOOSE i \in DOMAIN jobs : jobs[i].id = id]
    ELSE Undefined

NewActiveJobs == <<>>

getJobOrLatest(jobs, jobId) ==
    IF HasJob(jobs, jobId) \/ jobs = <<>> THEN MapGet(jobs, jobId)
    ELSE jobs[Len(jobs)]

getJob(jobs, jobId) == MapGet(jobs, jobId)

getAllJobsUnfinished(jobs) ==
    SelectSeq(jobs, LAMBDA j : j.status = "installing")

(* Array.from(this.activeJobs.values()): the jobs in insertion order *)
getAllJobs(jobs) == jobs

thisActiveJobsShared(m) == 1

(* this.activeJobs of manager m: the Map constructed with that instance *)
thisActiveJobs(m) == m

(* GET /plugins/status/:id, after the manager has been constructed *)
StatusResponse(job) ==
    IF job = Undefined
    THEN [status |-> 404, body |-> [error |-> "Job not found"]]
    ELSE [status |-> 200, body |-> job]

(* --- processes --- *)

CommandPluginsOnly(o, target) ==
    (IF o \in {"installPlugin", "installSkill"}
     THEN << "openclaw", " ", "plugins", " ", "install", " " >>
     ELSE << "openclaw", " ", "plugins", " ", "uninstall", " " >>) \o target

(* The template literal each operation passes to startProcess: the words   *)
(* of the command, then the characters of the target as they are.          *)
Command(o, target) ==
    (IF o = "installPlugin"
     THEN << "openclaw", " ", "plugins", " ", "install", " " >>
     ELSE IF o = "installSkill"
     THEN << "npx", " ", "clawhub", " ", "install", " " >>
     ELSE IF o = "uninstallPlugin"
     THEN << "openclaw", " ", "plugins", " ", "uninstall", " " >>
     ELSE << "npx", " ", "clawhub", " ", "uninstall", " " >>) \o target

ProcLogs(st) ==
    IF st = "completed" THEN [stdout |-> "installed", stderr |-> ""]
    ELSE [stdout |-> "", stderr |-> "error"]

(* The command line is the target interpolated into a shell command: an    *)
(* unbalanced apostrophe makes it a syntax error, which exits non-zero.    *)
ExitStatuses(target) ==
    IF CountQuotes(target) % 2 = 1 THEN {"failed"} ELSE {"completed", "failed"}

(* cat MANIFEST_FILE *)
CatStatus(f) == IF f = FileAbsent THEN "failed" ELSE "completed"

CatStdoutNothing(f) == TxtEmpty

CatStdout(f) == IF f = FileAbsent THEN TxtEmpty ELSE f

(* --- the manifest document --- *)

FreshManifest(t) == [plugins |-> <<>>, skills |-> <<>>, lastUpdated |-> t]

PluginsOf(man) == IF "plugins" \in DOMAIN man THEN man.plugins ELSE <<>>
SkillsOf(man) == IF "skills" \in DOMAIN man THEN man.skills ELSE <<>>

PluginEntry(name, t) == [name |-> name, installedAt |-> t]
SkillEntry(slug, t) == [slug |-> slug, installedAt |-> t]
ManifestEntry(type, target, t) ==
    IF type = "plugin" THEN PluginEntry(target, t) ELSE SkillEntry(target, t)

EntryKey(e) == IF "name" \in DOMAIN e THEN e.name ELSE e.slug

(* logs.stdout || '{}' *)
CatContent(stdout) == IF stdout = TxtEmpty THEN TxtJson(EmptyObject) ELSE stdout

JSONparses(txt) == txt.k = "json"
JSONparse(txt) == txt.v
JSONstringify(v) == TxtJson(v)

listResultNoDefaults(man) ==
    [plugins |-> IF "plugins" \in DOMAIN man THEN man.plugins ELSE Undefined,
     skills |-> IF "skills" \in DOMAIN man THEN man.skills ELSE Undefined]

(* { plugins: manifest.plugins || [], skills: manifest.skills || [] } *)
listResult(man) == [plugins |-> PluginsOf(man), skills |-> SkillsOf(man)]

updateManifestDoc(man, type, entry, t) ==
    SetField(IF type = "plugin"
             THEN SetField(man, "plugins", Append(PluginsOf(man), entry))
             ELSE SetField(man, "skills", Append(SkillsOf(man), entry)),
             "lastUpdated", t)

removeFromManifestDocKeepsAll(man, type, name, t) ==
    SetField(man, "lastUpdated", t)

removeFromManifestDoc(man, type, name, t) ==
    SetField(IF type = "plugin"
             THEN SetField(man, "plugins",
                      SelectSeq(PluginsOf(man), LAMBDA p : p.name # name))
             ELSE SetField(man, "skills",
                      SelectSeq(SkillsOf(man), LAMBDA s : s.slug # name)),
             "lastUpdated", t)

(* The commands a manifest write starts, in order, none of them awaited *)
updateManifestCmdsEchoFirst == << "echo", "mkdir" >>

updateManifestCmds == << "mkdir", "echo" >>
removeFromManifestCmdsThenMkdir == << "echo", "mkdir" >>

removeFromManifestCmds == << "echo" >>
WriteCmds(o) ==
    IF o \in InstallOps THEN updateManifestCmds ELSE removeFromManifestCmds

(* --- echo '<json>' > MANIFEST_FILE, as the shell runs it --- *)

RECURSIVE SumQuotes(_)
SumQuotes(entries) ==
    IF entries = <<>> THEN 0
    ELSE CountQuotes(EntryKey(Head(entries))) + SumQuotes(Tail(entries))

DocQuotes(doc) == SumQuotes(PluginsOf(doc)) + SumQuotes(SkillsOf(doc))

(* An odd number of apostrophes leaves a quote open: the shell rejects the *)
(* line and runs nothing.  A missing directory fails the redirection.  An  *)
(* even number closes every quote, and the text between two of them is    *)
(* unquoted, so the shell strips its double quotes: what lands is not JSON.*)
ShellEchoAppends(doc, f, dir) ==
    IF DocQuotes(doc) % 2 = 1 THEN f
    ELSE IF ~dir THEN f
    ELSE IF DocQuotes(doc) = 0 /\ f \in {FileAbsent, TxtEmpty}
         THEN JSONstringify(doc)
    ELSE TxtGarbage

ShellEcho(doc, f, dir) ==
    IF DocQuotes(doc) % 2 = 1 THEN f
    ELSE IF ~dir THEN f
    ELSE IF DocQuotes(doc) = 0 THEN JSONstringify(doc)
    ELSE TxtGarbage

EchoWrites(doc, dir) == DocQuotes(doc) % 2 = 0 /\ dir

(* ------------------------------ state ---------------------------------- *)

SeedManifest ==
    [plugins |-> << PluginEntry(<<"a">>, Stamp(0, "seed")),
                     [name |-> <<"b">>, installedAt |-> Stamp(0, "seed"),
                      version |-> "1.0.0"] >>,
     skills |-> << SkillEntry(<<"b">>, Stamp(0, "seed")) >>,
     lastUpdated |-> Stamp(0, "seed")]

(* What MANIFEST_FILE can hold when a behaviour starts: nothing (a fresh   *)
(* container), a manifest written by an earlier run, or a damaged file.    *)
InitFiles == { FileAbsent, TxtJson(SeedManifest), TxtEmpty, TxtGarbage }

WaiterIdle == [pc |-> "idle"]

NoLookup == [op |-> "none"]

(* No devices request is being handled; no note tool is running *)
DevIdle == [pc |-> "idle"]
NoteIdle == [pc |-> "idle"]

(* The bindings of c.env that GET /storage looks at, as the set of those   *)
(* that are set.                                                           *)
AllCredentials == {"R2_ACCESS_KEY_ID", "R2_SECRET_ACCESS_KEY", "CF_ACCOUNT_ID"}

(* A gateway process, as the sandbox hands it out: 0 is the one running    *)
(* at the start, c the one started on behalf of call c.                   *)
GatewayProcess(n) == [id |-> n]

(* Locals of a restart request: what the lookup found, how the kill went,  *)
(* whether the grace period was waited.                                   *)
RestartInit == [looked |-> FALSE, found |-> Null, kill |-> "none",
                graced |-> FALSE]

HistInit ==
    [thrown |-> NoError, raised |-> FALSE, fileAtCall |-> FileAbsent,
     wAtCall |-> 0, read |-> "none", seen |-> NoManifest, readSeq |-> 0,
     dispatched |-> FALSE, landSeq |-> 0, landOk |-> FALSE, after |-> {},
     started |-> <<>>]

Init ==
    /\ file \in InitFiles
    /\ dirExists \in (IF file = FileAbsent THEN BOOLEAN ELSE {TRUE})
    /\ bg = {}
    /\ wseq = 0
    /\ activeJobs = [m \in Mgrs |-> NewActiveJobs]
    /\ issued = 0
    /\ pc = [c \in Calls |-> "idle"]
    /\ op = [c \in Calls |-> "none"]
    /\ arg = [c \in Calls |-> <<>>]
    /\ mgr = [c \in Calls |-> 0]
    /\ jobRef = [c \in Calls |-> 0]
    /\ proc = [c \in Calls |-> "none"]
    /\ catProc = [c \in Calls |-> [status |-> "none"]]
    /\ manifest = [c \in Calls |-> NoManifest]
    /\ cmdIdx = [c \in Calls |-> 0]
    /\ gw = {GatewayProcess(0)}
    /\ ens = [c \in Calls |-> "none"]
    /\ restart = [c \in Calls |-> RestartInit]
    /\ waiter = WaiterIdle
    /\ env = [c \in Calls |-> AllCredentials]
    /\ lookup = NoLookup
    /\ dev = DevIdle
    /\ note = NoteIdle
    /\ ret = [c \in Calls |-> NoRet]
    /\ hist = [c \in Calls |-> HistInit]

Job(c) == MapGet(activeJobs[mgr[c]], jobRef[c])

UsedMgrs == { mgr[c] : c \in { d \in Calls : pc[d] # "idle" } }

DoneCalls == { c \in Calls : pc[c] = "done" }

(* --------------------- try / catch structure --------------------------- *)

GetManifestSteps == {"cat_start", "cat_wait"}

installTryWithoutManifest == {"start", "wait"}

installTryWithoutWait == {"start", "cmd"}

(* The steps inside the try block of installPlugin / installSkill *)
installTry == {"start", "wait", "cmd"}

uninstallTryWithoutManifest == {"start", "wait"}

(* The steps inside the try block of uninstallPlugin / uninstallSkill *)
uninstallTry == {"start", "wait", "cmd"}

(* getManifest has returned man (read from the file, or the fresh one of   *)
(* its catch): the caller goes on to its next await.                      *)
GotManifest(c, man, h) ==
    /\ hist' = [hist EXCEPT ![c] = h]
    /\ catProc' = [catProc EXCEPT ![c] = [status |-> "none"]]
    /\ UNCHANGED activeJobs
    /\ IF op[c] = "listInstalled"
       THEN /\ pc' = [pc EXCEPT ![c] = "done"]
            /\ ret' = [ret EXCEPT ![c] = listResult(man)]
            /\ manifest' = [manifest EXCEPT ![c] = NoManifest]
            /\ UNCHANGED cmdIdx
       ELSE /\ pc' = [pc EXCEPT ![c] = "cmd"]
            /\ cmdIdx' = [cmdIdx EXCEPT ![c] = 1]
            /\ UNCHANGED ret
            /\ manifest' = [manifest EXCEPT ![c] =
                 IF op[c] \in InstallOps
                 THEN updateManifestDoc(man, JobType(op[c]),
                        ManifestEntry(JobType(op[c]), arg[c], Job(c).startedAt),
                        Stamp(c, "lastUpdated"))
                 ELSE removeFromManifestDoc(man,
                        IF op[c] = "uninstallPlugin" THEN "plugin" ELSE "skill",
                        arg[c], Stamp(c, "lastUpdated"))]

(* The value e is thrown at the current step of call c *)
Throw(c, e, h) ==
    IF pc[c] \in GetManifestSteps
    THEN GotManifest(c, FreshManifest(Stamp(c, "fresh")), [h EXCEPT !.read = "fallback"])
    ELSE /\ pc' = [pc EXCEPT ![c] = "done"]
         /\ manifest' = [manifest EXCEPT ![c] = NoManifest]
         /\ cmdIdx' = [cmdIdx EXCEPT ![c] = 0]
         /\ UNCHANGED catProc
         /\ IF op[c] \in InstallOps /\ pc[c] \in installTry
            THEN /\ activeJobs' = [activeJobs EXCEPT ![mgr[c]] =
                                     MapSet(@, FailJob(Job(c), e, Stamp(c, "failedAt")))]
                 /\ ret' = [ret EXCEPT ![c] = [job |-> jobRef[c]]]
                 /\ hist' = [hist EXCEPT ![c] = [h EXCEPT !.thrown = e]]
            ELSE IF op[c] \in UninstallOps /\ pc[c] \in uninstallTry
            THEN /\ ret' = [ret EXCEPT ![c] = [value |-> FALSE]]
                 /\ hist' = [hist EXCEPT ![c] = [h EXCEPT !.thrown = e]]
                 /\ UNCHANGED activeJobs
            ELSE /\ ret' = [ret EXCEPT ![c] = [raised |-> e]]
                 /\ hist' = [hist EXCEPT ![c] =
                               [h EXCEPT !.thrown = e, !.raised = TRUE]]
                 /\ UNCHANGED activeJobs

(* ---------------------------- operations ------------------------------- *)

RegistersJobAlways(o) == TRUE

(* The operations that create a job and put it into activeJobs *)
RegistersJob(o) == o \in InstallOps

CallVarsUnchanged ==
    UNCHANGED << file, dirExists, bg, wseq, gatewayVars, waiter, env,
                    lookup, dev, note >>

(* A caller invokes an operation on a manager it holds, or on one it has   *)
(* just constructed.  For an install this runs the code up to the first   *)
(* await: the job is created and put into the Map.                         *)
Begin(c, o, t, m) ==
    /\ pc[c] = "idle"
    /\ \A d \in Calls : d < c => pc[d] # "idle"
    /\ m \in UsedMgrs \cup { Cardinality(UsedMgrs) + 1 }
    /\ op' = [op EXCEPT ![c] = o]
    /\ arg' = [arg EXCEPT ![c] = t]
    /\ mgr' = [mgr EXCEPT ![c] = m]
    /\ hist' = [hist EXCEPT ![c] =
                  [HistInit EXCEPT !.fileAtCall = file, !.wAtCall = wseq,
                                   !.after = DoneCalls]]
    /\ pc' = [pc EXCEPT ![c] =
                IF o = "listInstalled" THEN "cat_start" ELSE "start"]
    /\ IF RegistersJob(o)
       THEN /\ issued' = issued + 1
            /\ jobRef' = [jobRef EXCEPT ![c] = randomUUID(issued)]
            /\ activeJobs' = [activeJobs EXCEPT ![m] =
                 MapSet(@, NewJob(randomUUID(issued), JobType(o), t,
                                  Stamp(c, "startedAt")))]
       ELSE UNCHANGED << issued, jobRef, activeJobs >>
    /\ UNCHANGED << proc, catProc, manifest, cmdIdx, ret >>
    /\ CallVarsUnchanged

(* One caller awaiting each operation before it invokes the next *)
NoneInFlight == \A d \in Calls : pc[d] \in {"idle", "done"}

BeginInstall(c) ==
    /\ NoneInFlight
    /\ \E o \in InstallOps, t \in Targets, m \in Mgrs : Begin(c, o, t, m)

BeginUninstall(c) ==
    /\ NoneInFlight
    /\ \E o \in UninstallOps, t \in Targets, m \in Mgrs : Begin(c, o, t, m)

BeginList(c) ==
    /\ NoneInFlight
    /\ \E m \in Mgrs : Begin(c, "listInstalled", <<>>, m)

(* getJob(jobId) on a manager the caller holds: no await, one step *)
GetJobCall(c) ==
    \E m \in Mgrs, id \in JobIds :
        /\ NoneInFlight
        /\ pc[c] = "idle"
        /\ \A d \in Calls : d < c => pc[d] # "idle"
        /\ m \in UsedMgrs \cup { Cardinality(UsedMgrs) + 1 }
        /\ op' = [op EXCEPT ![c] = "getJob"]
        /\ mgr' = [mgr EXCEPT ![c] = m]
        /\ jobRef' = [jobRef EXCEPT ![c] = id]
        /\ pc' = [pc EXCEPT ![c] = "done"]
        /\ ret' = [ret EXCEPT ![c] = getJob(activeJobs[m], id)]
        /\ hist' = [hist EXCEPT ![c] = [HistInit EXCEPT !.after = DoneCalls]]
        /\ UNCHANGED << arg, activeJobs, issued, proc, catProc, manifest,
                        cmdIdx >>
        /\ CallVarsUnchanged

(* GET /plugins/status/:id: a manager is constructed for the request *)
StatusRoute(c) ==
    \E id \in JobIds :
        /\ NoneInFlight
        /\ pc[c] = "idle"
        /\ \A d \in Calls : d < c => pc[d] # "idle"
        /\ op' = [op EXCEPT ![c] = "statusRoute"]
        /\ jobRef' = [jobRef EXCEPT ![c] = id]
        /\ pc' = [pc EXCEPT ![c] = "done"]
        /\ ret' = [ret EXCEPT ![c] = StatusResponse(getJob(NewActiveJobs, id))]
        /\ hist' = [hist EXCEPT ![c] = [HistInit EXCEPT !.after = DoneCalls]]
        /\ UNCHANGED << arg, mgr, activeJobs, issued, proc, catProc, manifest,
                        cmdIdx >>
        /\ CallVarsUnchanged

(* await sandbox.startProcess(<install or uninstall command>) resolves *)
StartResolves(c) ==
    /\ pc[c] = "start"
    /\ pc' = [pc EXCEPT ![c] = "wait"]
    /\ proc' = [proc EXCEPT ![c] = "running"]
    /\ hist' = [hist EXCEPT ![c].started = Command(op[c], arg[c])]
    /\ UNCHANGED << op, arg, mgr, jobRef, activeJobs, issued, catProc,
                    manifest, cmdIdx, ret >>
    /\ CallVarsUnchanged

(* ... or rejects: no process exists *)
StartRejects(c) ==
    /\ pc[c] = "start"
    /\ \E e \in StartRejections : Throw(c, e, hist[c])
    /\ UNCHANGED << op, arg, mgr, jobRef, issued, proc >>
    /\ CallVarsUnchanged

(* await waitForProcess(proc, INSTALLATION_TIMEOUT_MS) throws: the deadline *)
(* passes while the process is still running                               *)
WaitTimesOut(c) ==
    /\ pc[c] = "wait"
    /\ proc[c] = "running"
    /\ Throw(c, TimeoutError, hist[c])
    /\ UNCHANGED << op, arg, mgr, jobRef, issued, proc >>
    /\ CallVarsUnchanged

(* waitForProcess returns (the status it polls is terminal) and           *)
(* await proc.getLogs() resolves.  An install marks its job completed and  *)
(* enters updateManifest; the next await is the cat of getManifest.       *)
LogsResolve(c) ==
    /\ pc[c] = "wait"
    /\ proc[c] \in {"completed", "failed"}
    /\ pc' = [pc EXCEPT ![c] = "cat_start"]
    /\ IF op[c] \in InstallOps
       THEN activeJobs' = [activeJobs EXCEPT ![mgr[c]] =
                MapSet(@, CompleteJob(Job(c), ProcLogs(proc[c]),
                                   Stamp(c, "completedAt")))]
       ELSE UNCHANGED activeJobs
    /\ UNCHANGED << op, arg, mgr, jobRef, issued, proc, catProc, manifest,
                    cmdIdx, ret, hist >>
    /\ CallVarsUnchanged

LogsReject(c) ==
    /\ pc[c] = "wait"
    /\ proc[c] \in {"completed", "failed"}
    /\ Throw(c, LogsError, hist[c])
    /\ UNCHANGED << op, arg, mgr, jobRef, issued, proc >>
    /\ CallVarsUnchanged

(* getManifest: await sandbox.startProcess(`cat MANIFEST_FILE`) *)
CatStartResolves(c) ==
    /\ pc[c] = "cat_start"
    /\ pc' = [pc EXCEPT ![c] = "cat_wait"]
    /\ catProc' = [catProc EXCEPT ![c] = [status |-> "running"]]
    /\ UNCHANGED << op, arg, mgr, jobRef, activeJobs, issued, proc, manifest,
                    cmdIdx, ret, hist >>
    /\ CallVarsUnchanged

CatStartRejects(c) ==
    /\ pc[c] = "cat_start"
    /\ Throw(c, StartError, hist[c])
    /\ UNCHANGED << op, arg, mgr, jobRef, issued, proc >>
    /\ CallVarsUnchanged

(* getManifest: await waitForProcess(proc, 5000) throws *)
CatWaitTimesOut(c) ==
    /\ pc[c] = "cat_wait"
    /\ catProc[c].status = "running"
    /\ Throw(c, TimeoutError, hist[c])
    /\ UNCHANGED << op, arg, mgr, jobRef, issued, proc >>
    /\ CallVarsUnchanged

(* getManifest: waitForProcess returns, await proc.getLogs() resolves,     *)
(* then JSON.parse(logs.stdout || '{}')                                    *)
CatLogsResolve(c) ==
    /\ pc[c] = "cat_wait"
    /\ catProc[c].status \in {"completed", "failed"}
    /\ LET content == CatContent(catProc[c].stdout) IN
         IF JSONparses(content)
         THEN GotManifest(c, JSONparse(content),
                          [hist[c] EXCEPT !.read = "parsed"])
         ELSE Throw(c, SyntaxError, hist[c])
    /\ UNCHANGED << op, arg, mgr, jobRef, issued, proc >>
    /\ CallVarsUnchanged

CatLogsReject(c) ==
    /\ pc[c] = "cat_wait"
    /\ catProc[c].status \in {"completed", "failed"}
    /\ Throw(c, LogsError, hist[c])
    /\ UNCHANGED << op, arg, mgr, jobRef, issued, proc >>
    /\ CallVarsUnchanged

(* updateManifest / removeFromManifest: await sandbox.startProcess(cmd) of *)
(* the next write command resolves.  The command is now the container's;   *)
(* nothing waits for it.  After the last one the operation returns.        *)
CmdStartResolves(c) ==
    /\ pc[c] = "cmd"
    /\ LET cmds == WriteCmds(op[c])
           cmd == cmds[cmdIdx[c]]
           last == cmdIdx[c] = Len(cmds)
       IN
       /\ bg' = IF cmd = "mkdir"
                THEN (IF dirExists THEN bg   \* mkdir -p of a directory that
                                             \* exists changes nothing
                      ELSE bg \cup {[by |-> c, cmd |-> "mkdir"]})
                ELSE bg \cup {[by |-> c, cmd |-> "echo",
                               text |-> JSONstringify(manifest[c])]}
       /\ hist' = [hist EXCEPT ![c].dispatched = @ \/ cmd = "echo"]
       /\ IF last
          THEN /\ pc' = [pc EXCEPT ![c] = "done"]
               /\ cmdIdx' = [cmdIdx EXCEPT ![c] = 0]
               /\ manifest' = [manifest EXCEPT ![c] = NoManifest]
               /\ ret' = [ret EXCEPT ![c] =
                            IF op[c] \in InstallOps THEN [job |-> jobRef[c]]
                            ELSE [value |-> TRUE]]
          ELSE /\ cmdIdx' = [cmdIdx EXCEPT ![c] = @ + 1]
               /\ UNCHANGED << pc, manifest, ret >>
    /\ UNCHANGED << op, arg, mgr, jobRef, activeJobs, issued, proc, catProc,
                    file, dirExists, wseq, gatewayVars, waiter, env,
                    lookup, dev, note >>

CmdStartRejects(c) ==
    /\ pc[c] = "cmd"
    /\ Throw(c, StartError, hist[c])
    /\ UNCHANGED << op, arg, mgr, jobRef, issued, proc >>
    /\ CallVarsUnchanged

(* ---------------------------- the container ---------------------------- *)

(* The install / uninstall command ends, awaited or not *)
ProcExits(c) ==
    /\ proc[c] = "running"
    /\ \E st \in ExitStatuses(arg[c]) : proc' = [proc EXCEPT ![c] = st]
    /\ UNCHANGED << file, dirExists, bg, wseq, activeJobs, issued, pc,
                    op, arg, mgr, jobRef, catProc, manifest, cmdIdx, ret,
                    hist, gatewayVars, waiter, env,
                    lookup, dev, note >>

(* cat reads the file as it is now, and ends *)
CatExits(c) ==
    /\ catProc[c].status = "running"
    /\ catProc' = [catProc EXCEPT ![c] =
                     [status |-> CatStatus(file), stdout |-> CatStdout(file)]]
    /\ hist' = [hist EXCEPT ![c] = [@ EXCEPT !.seen = file, !.readSeq = wseq]]
    /\ UNCHANGED << file, dirExists, bg, wseq, activeJobs, issued, pc,
                    op, arg, mgr, jobRef, proc, manifest, cmdIdx, ret,
                    gatewayVars, waiter, env,
                    lookup, dev, note >>

(* A command that was started and never awaited runs *)
MkdirRuns(p) ==
    /\ p \in bg /\ p.cmd = "mkdir"
    /\ bg' = bg \ {p}
    /\ dirExists' = TRUE
    /\ UNCHANGED << file, wseq, activeJobs, issued, pc, op, arg, mgr,
                    jobRef, proc, catProc, manifest, cmdIdx, ret, hist,
                    gatewayVars, waiter, env,
                    lookup, dev, note >>

EchoRuns(p) ==
    /\ p \in bg /\ p.cmd = "echo"
    /\ bg' = bg \ {p}
    /\ file' = ShellEcho(JSONparse(p.text), file, dirExists)
    /\ wseq' = wseq + 1
    /\ hist' = [hist EXCEPT ![p.by] =
                  [@ EXCEPT !.landSeq = wseq + 1,
                            !.landOk = EchoWrites(JSONparse(p.text), dirExists)]]
    /\ UNCHANGED << dirExists, activeJobs, issued, pc, op, arg, mgr,
                    jobRef, proc, catProc, manifest, cmdIdx, ret, gatewayVars, waiter,
                    env,
                    lookup, dev, note >>

Next ==
    \/ \E c \in Calls : BeginInstall(c)
    \/ \E c \in Calls : BeginUninstall(c)
    \/ \E c \in Calls : BeginList(c)
    \/ \E c \in Calls : GetJobCall(c)
    \/ \E c \in Calls : StatusRoute(c)
    \/ \E c \in Calls : StartResolves(c)
    \/ \E c \in Calls : StartRejects(c)
    \/ \E c \in Calls : WaitTimesOut(c)
    \/ \E c \in Calls : LogsResolve(c)
    \/ \E c \in Calls : LogsReject(c)
    \/ \E c \in Calls : CatStartResolves(c)
    \/ \E c \in Calls : CatStartRejects(c)
    \/ \E c \in Calls : CatWaitTimesOut(c)
    \/ \E c \in Calls : CatLogsResolve(c)
    \/ \E c \in Calls : CatLogsReject(c)
    \/ \E c \in Calls : CmdStartResolves(c)
    \/ \E c \in Calls : CmdStartRejects(c)
    \/ \E c \in Calls : ProcExits(c)
    \/ \E c \in Calls : CatExits(c)
    \/ \E p \in bg : MkdirRuns(p)
    \/ \E p \in bg : EchoRuns(p)

Spec == Init /\ [][Next]_vars

(* Two requests in flight at once, each install run by the manager of its  *)
(* own request: the Worker does not serialise requests, and every await is *)
(* a point where the other request runs.                                   *)
RaceTargets == { <<"c">>, <<"d">> }

BeginInstallRace(c) ==
    \E o \in InstallOps, t \in RaceTargets, m \in Mgrs : Begin(c, o, t, m)

NextRace ==
    \/ \E c \in Calls : BeginInstallRace(c)
    \/ \E c \in Calls : StartResolves(c)
    \/ \E c \in Calls : StartRejects(c)
    \/ \E c \in Calls : WaitTimesOut(c)
    \/ \E c \in Calls : LogsResolve(c)
    \/ \E c \in Calls : LogsReject(c)
    \/ \E c \in Calls : CatStartResolves(c)
    \/ \E c \in Calls : CatStartRejects(c)
    \/ \E c \in Calls : CatWaitTimesOut(c)
    \/ \E c \in Calls : CatLogsResolve(c)
    \/ \E c \in Calls : CatLogsReject(c)
    \/ \E c \in Calls : CmdStartResolves(c)
    \/ \E c \in Calls : CmdStartRejects(c)
    \/ \E c \in Calls : ProcExits(c)
    \/ \E c \in Calls : CatExits(c)
    \/ \E p \in bg : MkdirRuns(p)
    \/ \E p \in bg : EchoRuns(p)

SpecRace == Init /\ [][NextRace]_vars

(* Installs and uninstalls in flight at once, on one manager or on several, *)
(* of the same target or of different ones.                                *)
BeginInstallOrUninstall(c) ==
    \E o \in InstallOps \cup UninstallOps, t \in Targets, m \in Mgrs :
        Begin(c, o, t, m)

InitInterfere == Init /\ file = TxtJson(SeedManifest)

NextInterfere ==
    \/ \E c \in Calls : BeginInstallOrUninstall(c)
    \/ \E c \in Calls : StartResolves(c)
    \/ \E c \in Calls : StartRejects(c)
    \/ \E c \in Calls : WaitTimesOut(c)
    \/ \E c \in Calls : LogsResolve(c)
    \/ \E c \in Calls : LogsReject(c)
    \/ \E c \in Calls : CatStartResolves(c)
    \/ \E c \in Calls : CatStartRejects(c)
    \/ \E c \in Calls : CatWaitTimesOut(c)
    \/ \E c \in Calls : CatLogsResolve(c)
    \/ \E c \in Calls : CatLogsReject(c)
    \/ \E c \in Calls : CmdStartResolves(c)
    \/ \E c \in Calls : CmdStartRejects(c)
    \/ \E c \in Calls : ProcExits(c)
    \/ \E c \in Calls : CatExits(c)
    \/ \E p \in bg : EchoRuns(p)

SpecInterfere == InitInterfere /\ [][NextInterfere]_vars

(* -------------------- the admin routes (api.ts) ------------------------ *)

(* The JSON body of an install request: its plugin / skill field holds a   *)
(* name or the empty string, or is missing.  What :type can be.            *)
InstallBodies == { [name |-> t] : t \in Targets \cup {<<>>} } \cup {EmptyObject}
UninstallTypes == {"plugin", "skill", "theme"}

installBodyValidButEmpty(body) == "name" \in DOMAIN body

(* if (!body.plugin) return 400 / if (!body.skill) return 400: undefined   *)
(* and the empty string are falsy                                          *)
installBodyValid(body) == "name" \in DOMAIN body /\ body.name # <<>>

(* ['plugin', 'skill'].includes(type) *)
typeValid(ty) == ty \in {"plugin", "skill"}

RequiredMessage(o) ==
    IF o = "installPlugin" THEN "plugin name is required"
    ELSE "skill slug is required"

(* return c.json({ error }, 400), before a manager is constructed *)
BadRequest(c, req, msg) ==
    /\ pc[c] = "idle"
    /\ \A d \in Calls : d < c => pc[d] # "idle"
    /\ op' = [op EXCEPT ![c] = "badRequest"]
    /\ arg' = [arg EXCEPT ![c] = req]
    /\ pc' = [pc EXCEPT ![c] = "done"]
    /\ ret' = [ret EXCEPT ![c] = [status |-> 400, body |-> [error |-> msg]]]
    /\ hist' = [hist EXCEPT ![c] = [HistInit EXCEPT !.after = DoneCalls]]
    /\ UNCHANGED << mgr, jobRef, activeJobs, issued, proc, catProc, manifest,
                    cmdIdx >>
    /\ CallVarsUnchanged

(* POST /plugins/install and POST /skills/install, up to the first await   *)
(* of installPlugin / installSkill on the manager of this request          *)
RouteInstall(c) ==
    /\ NoneInFlight
    /\ \E o \in InstallOps, body \in InstallBodies :
         IF installBodyValid(body)
         THEN \E m \in Mgrs : m \notin UsedMgrs /\ Begin(c, o, body.name, m)
         ELSE BadRequest(c, [route |-> o, body |-> body], RequiredMessage(o))

(* DELETE /plugins/:type/:name *)
RouteUninstall(c) ==
    /\ NoneInFlight
    /\ \E ty \in UninstallTypes, n \in Targets :
         IF typeValid(ty)
         THEN \E m \in Mgrs :
                /\ m \notin UsedMgrs
                /\ Begin(c, IF ty = "plugin" THEN "uninstallPlugin"
                            ELSE "uninstallSkill", n, m)
         ELSE BadRequest(c, [route |-> "uninstall", type |-> ty, name |-> n],
                         "Invalid type, must be \"plugin\" or \"skill\"")

(* ------------------------- the gateway --------------------------------- *)

installVars == << file, dirExists, bg, wseq, activeJobs, issued, arg, mgr,
                  jobRef, proc, catProc, manifest, cmdIdx, env,
                    lookup, dev, note >>

(* No install or uninstall is between its first and its last step *)
NoInstallInFlight ==
    \A d \in Calls : pc[d] \in {"idle", "done"} \/ op[d] \in GatewayOps

(* findExistingMoltbotProcess(sandbox): an active gateway process, or null *)
findExistingMoltbotProcess(g) == IF g = {} THEN {Null} ELSE g

AfterFindSkipsKill(existing) == "boot"

(* if (existingProcess) { kill; wait } ... ensureMoltbotGateway *)
AfterFind(existing) == IF existing = Null THEN "boot" ELSE "kill"

RestartResponseAlwaysId(existing) ==
    [success |-> TRUE,
     message |-> IF existing # Null
                 THEN "Gateway process killed, new instance starting..."
                 ELSE "No existing process found, starting new instance...",
     previousProcessId |-> IF existing # Null THEN existing.id ELSE Null]

(* c.json({ success, message, previousProcessId: existingProcess?.id }):   *)
(* a key whose value is undefined is left out of the JSON                  *)
RestartResponse(existing) ==
    IF existing # Null
    THEN [success |-> TRUE,
          message |-> "Gateway process killed, new instance starting...",
          previousProcessId |-> existing.id]
    ELSE [success |-> TRUE,
          message |-> "No existing process found, starting new instance..."]

(* POST /gateway/restart, up to await findExistingMoltbotProcess *)
BeginRestart(c) ==
    /\ NoInstallInFlight
    /\ pc[c] = "idle"
    /\ \A d \in Calls : d < c => pc[d] # "idle"
    /\ op' = [op EXCEPT ![c] = "restartRoute"]
    /\ pc' = [pc EXCEPT ![c] = "find"]
    /\ hist' = [hist EXCEPT ![c] = [HistInit EXCEPT !.after = DoneCalls]]
    /\ UNCHANGED << installVars, waiter, ret, gatewayVars, waiter >>

(* ensureMoltbotGateway(sandbox, env) is called: it runs up to its first   *)
(* await; the handler hands the promise to waitUntil and responds.         *)
Boot(c, r) ==
    /\ restart' = [restart EXCEPT ![c] = r]
    /\ ens' = [ens EXCEPT ![c] = "probe"]
    /\ pc' = [pc EXCEPT ![c] = "done"]
    /\ ret' = [ret EXCEPT ![c] =
                 [status |-> 200, body |-> RestartResponse(r.found)]]

FindResolves(c) ==
    /\ pc[c] = "find"
    /\ \E existing \in findExistingMoltbotProcess(gw) :
         LET r == [restart[c] EXCEPT !.looked = TRUE, !.found = existing] IN
           IF AfterFind(existing) = "boot"
           THEN Boot(c, r)
           ELSE /\ restart' = [restart EXCEPT ![c] = r]
                /\ pc' = [pc EXCEPT ![c] = "kill"]
                /\ UNCHANGED << ens, ret >>
    /\ UNCHANGED << installVars, waiter, op, hist, gw >>

(* the lookup throws: the outer catch answers 500 *)
FindRejects(c) ==
    /\ pc[c] = "find"
    /\ pc' = [pc EXCEPT ![c] = "done"]
    /\ ret' = [ret EXCEPT ![c] =
                 [status |-> 500, body |-> [error |-> ErrorMessage(StartError)]]]
    /\ hist' = [hist EXCEPT ![c].thrown = StartError]
    /\ UNCHANGED << installVars, waiter, op, gatewayVars, waiter >>

(* await existingProcess.kill() resolves: the process is gone *)
KillResolves(c) ==
    /\ pc[c] = "kill"
    /\ gw' = gw \ {restart[c].found}
    /\ restart' = [restart EXCEPT ![c].kill = "ok"]
    /\ pc' = [pc EXCEPT ![c] = "grace"]
    /\ UNCHANGED << installVars, waiter, op, hist, ret, ens >>

(* ... or throws: caught and logged, the process is still there *)
KillRejects(c) ==
    /\ pc[c] = "kill"
    /\ restart' = [restart EXCEPT ![c].kill = "threw"]
    /\ pc' = [pc EXCEPT ![c] = "grace"]
    /\ UNCHANGED << installVars, waiter, op, hist, ret, ens, gw >>

(* await new Promise(r => setTimeout(r, 2000)) *)
GraceElapses(c) ==
    /\ pc[c] = "grace"
    /\ Boot(c, [restart[c] EXCEPT !.graced = TRUE])
    /\ UNCHANGED << installVars, waiter, op, hist, gw >>

(* await ensureMoltbotGateway(sandbox, env) by another handler *)
BeginEnsure(c) ==
    /\ NoInstallInFlight
    /\ pc[c] = "idle"
    /\ \A d \in Calls : d < c => pc[d] # "idle"
    /\ op' = [op EXCEPT ![c] = "ensureRunning"]
    /\ pc' = [pc EXCEPT ![c] = "ensuring"]
    /\ ens' = [ens EXCEPT ![c] = "probe"]
    /\ hist' = [hist EXCEPT ![c] = [HistInit EXCEPT !.after = DoneCalls]]
    /\ UNCHANGED << installVars, waiter, ret, gw, restart >>

(* The ensureMoltbotGateway task of call c ends.  Awaited by its caller,   *)
(* it returns or raises; started by the restart handler, its rejection is  *)
(* caught by .catch and logged.                                            *)
EnsureEnds(c, outcome) ==
    /\ ens' = [ens EXCEPT ![c] = outcome]
    /\ IF op[c] = "ensureRunning"
       THEN /\ pc' = [pc EXCEPT ![c] = "done"]
            /\ ret' = [ret EXCEPT ![c] =
                         IF outcome = "done" THEN [value |-> "running"]
                         ELSE [raised |-> StartError]]
            /\ hist' = [hist EXCEPT ![c].raised = outcome # "done"]
       ELSE UNCHANGED << pc, ret, hist >>

(* the probe for an existing gateway process answers *)
EnsureProbes(c) ==
    /\ ens[c] = "probe"
    /\ IF gw # {}
       THEN EnsureEnds(c, "done")
       ELSE /\ ens' = [ens EXCEPT ![c] = "start"]
            /\ UNCHANGED << pc, ret, hist >>
    /\ UNCHANGED << installVars, waiter, op, gw, restart >>

(* none was found: the gateway process is started *)
EnsureStartResolves(c) ==
    /\ ens[c] = "start"
    /\ gw' = gw \cup {GatewayProcess(c)}
    /\ EnsureEnds(c, "done")
    /\ UNCHANGED << installVars, waiter, op, restart >>

EnsureStartRejects(c) ==
    /\ ens[c] = "start"
    /\ EnsureEnds(c, "failed")
    /\ UNCHANGED << installVars, waiter, op, gw, restart >>

(* Requests as the routes receive them: installs and uninstalls one at a   *)
(* time, gateway requests overlapping each other.                          *)
InitRoutes ==
    /\ file \in {FileAbsent, TxtJson(SeedManifest)}
    /\ dirExists = (file # FileAbsent)
    /\ bg = {}
    /\ wseq = 0
    /\ activeJobs = [m \in Mgrs |-> NewActiveJobs]
    /\ issued = 0
    /\ pc = [c \in Calls |-> "idle"]
    /\ op = [c \in Calls |-> "none"]
    /\ arg = [c \in Calls |-> <<>>]
    /\ mgr = [c \in Calls |-> 0]
    /\ jobRef = [c \in Calls |-> 0]
    /\ proc = [c \in Calls |-> "none"]
    /\ catProc = [c \in Calls |-> [status |-> "none"]]
    /\ manifest = [c \in Calls |-> NoManifest]
    /\ cmdIdx = [c \in Calls |-> 0]
    /\ gw \in {{}, {GatewayProcess(0)}}
    /\ ens = [c \in Calls |-> "none"]
    /\ restart = [c \in Calls |-> RestartInit]
    /\ waiter = WaiterIdle
    /\ env = [c \in Calls |-> AllCredentials]
    /\ lookup = NoLookup
    /\ dev = DevIdle
    /\ note = NoteIdle
    /\ ret = [c \in Calls |-> NoRet]
    /\ hist = [c \in Calls |-> HistInit]

NextRoutes ==
    \/ \E c \in Calls : RouteInstall(c)
    \/ \E c \in Calls : RouteUninstall(c)
    \/ \E c \in Calls : BeginRestart(c)
    \/ \E c \in Calls : BeginEnsure(c)
    \/ \E c \in Calls : FindResolves(c)
    \/ \E c \in Calls : FindRejects(c)
    \/ \E c \in Calls : KillResolves(c)
    \/ \E c \in Calls : KillRejects(c)
    \/ \E c \in Calls : GraceElapses(c)
    \/ \E c \in Calls : EnsureProbes(c)
    \/ \E c \in Calls : EnsureStartResolves(c)
    \/ \E c \in Calls : EnsureStartRejects(c)
    \/ \E c \in Calls : StartResolves(c)
    \/ \E c \in Calls : StartRejects(c)
    \/ \E c \in Calls : WaitTimesOut(c)
    \/ \E c \in Calls : LogsResolve(c)
    \/ \E c \in Calls : LogsReject(c)
    \/ \E c \in Calls : CatStartResolves(c)
    \/ \E c \in Calls : CatStartRejects(c)
    \/ \E c \in Calls : CatWaitTimesOut(c)
    \/ \E c \in Calls : CatLogsResolve(c)
    \/ \E c \in Calls : CatLogsReject(c)
    \/ \E c \in Calls : CmdStartResolves(c)
    \/ \E c \in Calls : CmdStartRejects(c)
    \/ \E c \in Calls : ProcExits(c)
    \/ \E c \in Calls : CatExits(c)
    \/ \E p \in bg : MkdirRuns(p)
    \/ \E p \in bg : EchoRuns(p)

SpecRoutes == InitRoutes /\ [][NextRoutes]_vars

(* ----------------------- waitForProcess in time ------------------------ *)

INSTALLATION_TIMEOUT_MS_TenFold == 120000 * 10

INSTALLATION_TIMEOUT_MS == 120000

MANIFEST_READ_TIMEOUT_MS == 5000

(* The interval of the polling loop, in ms *)
PollIntervals == {250, 300, 500}

(* The calls of waitForProcess in installation.ts and the timeout each     *)
(* passes                                                                  *)
WaitSites == {"installPlugin", "installSkill", "uninstallPlugin",
              "uninstallSkill", "getManifest"}

SiteTimeout(site) ==
    IF site = "getManifest" THEN MANIFEST_READ_TIMEOUT_MS
    ELSE INSTALLATION_TIMEOUT_MS

(* await waitForProcess(proc, timeoutMs) is called at one of the sites *)
WaitBegins ==
    /\ waiter.pc = "idle"
    /\ \E site \in WaitSites, poll \in PollIntervals :
         waiter' = [pc |-> "polling", site |-> site,
                    timeoutMs |-> SiteTimeout(site), poll |-> poll,
                    elapsed |-> 0, status |-> "running"]
    /\ UNCHANGED << installVars, gatewayVars, pc, op, ret, hist >>

(* the process reaches a terminal status *)
HandleEnds ==
    /\ waiter.pc = "polling" /\ waiter.status = "running"
    /\ \E st \in {"completed", "failed"} :
         waiter' = [waiter EXCEPT !.status = st]
    /\ UNCHANGED << installVars, gatewayVars, pc, op, ret, hist >>

(* a poll sees a terminal status: the wait returns *)
WaitReturns ==
    /\ waiter.pc = "polling" /\ waiter.status # "running"
    /\ waiter' = [waiter EXCEPT !.pc = "returned"]
    /\ UNCHANGED << installVars, gatewayVars, pc, op, ret, hist >>

(* a poll sees the process running before the deadline: sleep one interval *)
WaitSleeps ==
    /\ waiter.pc = "polling" /\ waiter.status = "running"
    /\ waiter.elapsed < waiter.timeoutMs
    /\ waiter' = [waiter EXCEPT !.elapsed = @ + waiter.poll]
    /\ UNCHANGED << installVars, gatewayVars, pc, op, ret, hist >>

(* a poll sees the process running at or after the deadline: Timeout *)
WaitThrows ==
    /\ waiter.pc = "polling" /\ waiter.status = "running"
    /\ waiter.elapsed >= waiter.timeoutMs
    /\ waiter' = [waiter EXCEPT !.pc = "timeout"]
    /\ UNCHANGED << installVars, gatewayVars, pc, op, ret, hist >>

InitWait == Init /\ file = FileAbsent /\ ~dirExists

NextWait ==
    \/ WaitBegins
    \/ HandleEnds
    \/ WaitReturns
    \/ WaitSleeps
    \/ WaitThrows

SpecWait == InitWait /\ [][NextWait]_vars

(* --------------------- lookups in the job table ------------------------ *)

(* getJob and getAllJobs are synchronous: a holder of a manager can call   *)
(* them at any moment, also while installs of that manager are suspended   *)
(* at an await.  The caller has the result at once, and drops it.          *)
LookupIdle == lookup = NoLookup

LookupFrame ==
    UNCHANGED << file, dirExists, bg, wseq, activeJobs, issued, arg, mgr,
                 jobRef, proc, catProc, manifest, cmdIdx, env, gatewayVars,
                 waiter, pc, op, ret, hist, dev, note >>

LookupGetJob ==
    /\ LookupIdle
    /\ \E m \in Mgrs, id \in JobIds :
         lookup' = [op |-> "getJob", mgr |-> m, id |-> id,
                    ret |-> getJob(activeJobs[thisActiveJobs(m)], id)]
    /\ LookupFrame

LookupGetAllJobs ==
    /\ LookupIdle
    /\ \E m \in Mgrs :
         lookup' = [op |-> "getAllJobs", mgr |-> m,
                    ret |-> getAllJobs(activeJobs[thisActiveJobs(m)])]
    /\ LookupFrame

LookupDropped ==
    /\ ~LookupIdle
    /\ lookup' = NoLookup
    /\ LookupFrame

JobsTargets == { <<"a">> }

BeginInstallJobs(c) ==
    \E o \in InstallOps, t \in JobsTargets, m \in Mgrs : Begin(c, o, t, m)

InitJobs == Init /\ file = TxtJson(SeedManifest)

NextJobs ==
    \/ LookupGetJob
    \/ LookupGetAllJobs
    \/ LookupDropped
    \/ \E c \in Calls : LookupIdle /\ BeginInstallJobs(c)
    \/ \E c \in Calls : LookupIdle /\ StartResolves(c)
    \/ \E c \in Calls : LookupIdle /\ StartRejects(c)
    \/ \E c \in Calls : LookupIdle /\ WaitTimesOut(c)
    \/ \E c \in Calls : LookupIdle /\ LogsResolve(c)
    \/ \E c \in Calls : LookupIdle /\ LogsReject(c)
    \/ \E c \in Calls : LookupIdle /\ CatStartResolves(c)
    \/ \E c \in Calls : LookupIdle /\ CatStartRejects(c)
    \/ \E c \in Calls : LookupIdle /\ CatWaitTimesOut(c)
    \/ \E c \in Calls : LookupIdle /\ CatLogsResolve(c)
    \/ \E c \in Calls : LookupIdle /\ CatLogsReject(c)
    \/ \E c \in Calls : LookupIdle /\ CmdStartResolves(c)
    \/ \E c \in Calls : LookupIdle /\ CmdStartRejects(c)
    \/ \E c \in Calls : LookupIdle /\ ProcExits(c)
    \/ \E c \in Calls : LookupIdle /\ CatExits(c)
    \/ \E p \in bg : LookupIdle /\ EchoRuns(p)

SpecJobs == InitJobs /\ [][NextJobs]_vars

(* ------------------- storage configuration (api.ts) -------------------- *)

(* The bindings a request can arrive with: all three credentials, or the   *)
(* secret missing.                                                         *)
Envs == { AllCredentials, AllCredentials \ {"R2_SECRET_ACCESS_KEY"} }

CredentialOrder == << "R2_ACCESS_KEY_ID", "R2_SECRET_ACCESS_KEY", "CF_ACCOUNT_ID" >>

hasCredentialsAlways(e) == TRUE

(* !!(c.env.R2_ACCESS_KEY_ID && c.env.R2_SECRET_ACCESS_KEY &&              *)
(*    c.env.CF_ACCOUNT_ID)                                                 *)
hasCredentials(e) == \A i \in DOMAIN CredentialOrder : CredentialOrder[i] \in e

(* missing: the names pushed, in the order of the three tests *)
missingCredentials(e) == SelectSeq(CredentialOrder, LAMBDA n : n \notin e)

(* What the sync marker read can give: a timestamp, or nothing (no marker, *)
(* or the mount / the read failed: errors are ignored).  Not configured,   *)
(* the marker is not read.                                                 *)
LastSyncs(e) ==
    IF hasCredentials(e) THEN {Null, [timestamp |-> "synced"]} ELSE {Null}

(* c.json({ configured, missing: missing.length > 0 ? missing : undefined, *)
(*          lastSync, message })                                           *)
StorageResponse(e, lastSync) ==
    LET base == [configured |-> hasCredentials(e), lastSync |-> lastSync,
                 message |-> IF hasCredentials(e)
                             THEN "R2 storage is configured"
                             ELSE "R2 storage is not configured"]
    IN IF Len(missingCredentials(e)) > 0
       THEN SetField(base, "missing", missingCredentials(e))
       ELSE base

(* GET /storage *)
StorageRoute(c) ==
    /\ NoneInFlight
    /\ pc[c] = "idle"
    /\ \A d \in Calls : d < c => pc[d] # "idle"
    /\ op' = [op EXCEPT ![c] = "storageRoute"]
    /\ pc' = [pc EXCEPT ![c] = "done"]
    /\ \E lastSync \in LastSyncs(env[c]) :
         ret' = [ret EXCEPT ![c] =
                   [status |-> 200, body |-> StorageResponse(env[c], lastSync)]]
    /\ hist' = [hist EXCEPT ![c] = [HistInit EXCEPT !.after = DoneCalls]]
    /\ UNCHANGED << arg, mgr, jobRef, activeJobs, issued, proc, catProc,
                    manifest, cmdIdx >>
    /\ CallVarsUnchanged

(* Requests arriving with or without the storage credentials, on a         *)
(* container whose manifest holds entries.                                 *)
InitStorage ==
    /\ file = TxtJson(SeedManifest)
    /\ dirExists = TRUE
    /\ bg = {}
    /\ wseq = 0
    /\ activeJobs = [m \in Mgrs |-> NewActiveJobs]
    /\ issued = 0
    /\ pc = [c \in Calls |-> "idle"]
    /\ op = [c \in Calls |-> "none"]
    /\ arg = [c \in Calls |-> <<>>]
    /\ mgr = [c \in Calls |-> 0]
    /\ jobRef = [c \in Calls |-> 0]
    /\ proc = [c \in Calls |-> "none"]
    /\ catProc = [c \in Calls |-> [status |-> "none"]]
    /\ manifest = [c \in Calls |-> NoManifest]
    /\ cmdIdx = [c \in Calls |-> 0]
    /\ gw = {GatewayProcess(0)}
    /\ ens = [c \in Calls |-> "none"]
    /\ restart = [c \in Calls |-> RestartInit]
    /\ waiter = WaiterIdle
    /\ env \in [Calls -> Envs]
    /\ lookup = NoLookup
    /\ dev = DevIdle
    /\ note = NoteIdle
    /\ ret = [c \in Calls |-> NoRet]
    /\ hist = [c \in Calls |-> HistInit]

NextStorage ==
    \/ \E c \in Calls : BeginInstall(c)
    \/ \E c \in Calls : BeginUninstall(c)
    \/ \E c \in Calls : BeginList(c)
    \/ \E c \in Calls : StorageRoute(c)
    \/ \E c \in Calls : StartResolves(c)
    \/ \E c \in Calls : StartRejects(c)
    \/ \E c \in Calls : WaitTimesOut(c)
    \/ \E c \in Calls : LogsResolve(c)
    \/ \E c \in Calls : LogsReject(c)
    \/ \E c \in Calls : CatStartResolves(c)
    \/ \E c \in Calls : CatStartRejects(c)
    \/ \E c \in Calls : CatWaitTimesOut(c)
    \/ \E c \in Calls : CatLogsResolve(c)
    \/ \E c \in Calls : CatLogsReject(c)
    \/ \E c \in Calls : CmdStartResolves(c)
    \/ \E c \in Calls : CmdStartRejects(c)
    \/ \E c \in Calls : ProcExits(c)
    \/ \E c \in Calls : CatExits(c)
    \/ \E p \in bg : EchoRuns(p)

SpecStorage == InitStorage /\ [][NextStorage]_vars

(* ------------------ the devices routes (api.ts) ------------------------ *)

(* requestIds of pending devices, and the pending lists the CLI reports *)
DeviceIds == {"r1", "r2"}
PendingLists == { <<>>, << "r1" >>, << "r1", "r2" >>, << "r2", "r1" >> }

(* stdout as a sequence of tokens: an opening brace, a closing brace, a    *)
(* stretch of log text without braces, a requestId.  Log lines around the  *)
(* JSON may hold braces of their own.                                      *)
LogTexts == { <<>>, << "log" >>, << "log", "}" >>, << "{", "log" >> }

RECURSIVE DevicesText(_)
DevicesText(p) ==
    IF p = <<>> THEN <<>>
    ELSE << "{", Head(p), "}" >> \o DevicesText(Tail(p))

(* The JSON object `clawdbot devices list --json` prints: the devices are  *)
(* objects nested in it.                                                   *)
DeviceListText(p) == << "{" >> \o DevicesText(p) \o << "}" >>

(* What the list command can leave in logs.stdout *)
CliOutputs ==
    { [hasObject |-> TRUE, listed |-> p,
       stdout |-> pre \o DeviceListText(p) \o post] :
          pre \in LogTexts, p \in PendingLists, post \in LogTexts }
    \cup { [hasObject |-> FALSE, listed |-> <<>>, stdout |-> t] :
              t \in { <<>>, << "log" >> } }

IndexesOf(s, ch) == { i \in DOMAIN s : s[i] = ch }
MinOf(S) == CHOOSE x \in S : \A y \in S : x <= y
MaxOf(S) == CHOOSE x \in S : \A y \in S : x >= y

(* stdout.match(/\{[\s\S]*\}/): from the first opening brace to the last   *)
(* closing brace after it; null when there is none.                        *)
jsonMatch(stdout) ==
    LET opens == IndexesOf(stdout, "{")
        closes == IndexesOf(stdout, "}")
    IN IF opens = {} \/ closes = {} THEN Null
       ELSE IF MinOf(opens) > MaxOf(closes) THEN Null
       ELSE [text |-> SubSeq(stdout, MinOf(opens), MaxOf(closes))]

RECURSIVE IsDevicesText(_)
IsDevicesText(mid) ==
    IF mid = <<>> THEN TRUE
    ELSE /\ Len(mid) >= 3
         /\ mid[1] = "{" /\ mid[2] \in DeviceIds /\ mid[3] = "}"
         /\ IsDevicesText(SubSeq(mid, 4, Len(mid)))

RECURSIVE DevicesIn(_)
DevicesIn(mid) ==
    IF mid = <<>> THEN <<>>
    ELSE << mid[2] >> \o DevicesIn(SubSeq(mid, 4, Len(mid)))

(* JSON.parse(jsonMatch[0]) returns, or throws a SyntaxError *)
DevicesJSONparses(text) ==
    /\ Len(text) >= 2
    /\ text[1] = "{" /\ text[Len(text)] = "}"
    /\ IsDevicesText(SubSeq(text, 2, Len(text) - 1))

DevicesJSONparse(text) ==
    [pending |-> DevicesIn(SubSeq(text, 2, Len(text) - 1))]

(* GET /devices: what is answered for a stdout *)
DevicesResponse(stdout) ==
    LET m == jsonMatch(stdout) IN
    IF m = Null
    THEN [status |-> 200, body |-> [pending |-> <<>>, raw |-> stdout]]
    ELSE IF DevicesJSONparses(m.text)
    THEN [status |-> 200, body |-> DevicesJSONparse(m.text)]
    ELSE [status |-> 200,
          body |-> [pending |-> <<>>, raw |-> stdout,
                    parseError |-> "Failed to parse CLI output"]]

(* the outer catch of both routes *)
DevicesError(e) == [status |-> 500, body |-> [error |-> ErrorMessage(e)]]

(* results.filter(r => r.success).map(r => r.requestId) *)
RequestIds(results) == [i \in DOMAIN results |-> results[i].requestId]

ApprovedIdsAll(results) == RequestIds(results)

ApprovedIds(results) == RequestIds(SelectSeq(results, LAMBDA r : r.success))

(* results.filter(r => !r.success) *)
FailedEntries(results) == SelectSeq(results, LAMBDA r : ~r.success)

ApproveAllResponse(results, pending) ==
    [status |-> 200,
     body |-> [approved |-> ApprovedIds(results),
               failed |-> FailedEntries(results),
               message |-> [text |-> "Approved of device(s)",
                            count |-> Len(ApprovedIds(results)),
                            of |-> Len(pending)]]]

(* stdout?.toLowerCase().includes('approved') || exitCode === 0 *)
ApproveSuccess(saysApproved, exitCode) == saysApproved \/ exitCode = 0

DevRoutes == {"devices", "approveAll"}

DevStart(route) ==
    [pc |-> "ensure", route |-> route, hasObject |-> FALSE, listed |-> <<>>,
     stdout |-> <<>>, pending |-> <<>>, idx |-> 0, results |-> <<>>,
     attempts |-> <<>>, running |-> {}, ret |-> NoRet]

DevFrame ==
    UNCHANGED << file, dirExists, bg, wseq, activeJobs, issued, pc, op, arg,
                 mgr, jobRef, proc, catProc, manifest, cmdIdx, ret, hist,
                 gw, ens, restart, waiter, env, lookup, note >>

(* A request for one of the two routes arrives *)
DevicesBegin ==
    /\ dev.pc = "idle"
    /\ \E route \in DevRoutes : dev' = DevStart(route)
    /\ DevFrame

(* await ensureMoltbotGateway(sandbox, c.env) resolves *)
DevEnsureResolves ==
    /\ dev.pc = "ensure"
    /\ dev' = [dev EXCEPT !.pc = "list_start"]
    /\ DevFrame

(* await sandbox.startProcess('clawdbot devices list ...') resolves *)
DevListStartResolves ==
    /\ dev.pc = "list_start"
    /\ dev' = [dev EXCEPT !.pc = "list_wait"]
    /\ DevFrame

(* One of the awaits before the parse throws: the outer catch answers 500 *)
DevOuterThrows ==
    /\ dev.pc \in {"ensure", "list_start", "list_wait"}
    /\ \E e \in IF dev.pc = "list_wait" THEN {TimeoutError, LogsError}
                ELSE StartRejections :
         dev' = [dev EXCEPT !.pc = "done", !.ret = DevicesError(e)]
    /\ DevFrame

(* waitForProcess returns and getLogs resolves: stdout is matched and      *)
(* parsed.  GET /devices answers; approve-all goes on to its loop, or      *)
(* answers when the parse throws or nothing is pending.                    *)
DevListLogsResolve ==
    /\ dev.pc = "list_wait"
    /\ \E out \in CliOutputs :
         LET m == jsonMatch(out.stdout)
             d == [dev EXCEPT !.stdout = out.stdout, !.listed = out.listed,
                              !.hasObject = out.hasObject]
         IN
         IF dev.route = "devices"
         THEN dev' = [d EXCEPT !.pc = "done",
                               !.ret = DevicesResponse(out.stdout)]
         ELSE IF m # Null /\ ~DevicesJSONparses(m.text)
         THEN dev' = [d EXCEPT !.pc = "done",
                        !.ret = [status |-> 500,
                                 body |-> [error |-> "Failed to parse device list",
                                           raw |-> out.stdout]]]
         ELSE LET pending == IF m = Null THEN <<>>
                             ELSE DevicesJSONparse(m.text).pending
              IN IF Len(pending) = 0
                 THEN dev' = [d EXCEPT !.pc = "done",
                                !.ret = [status |-> 200,
                                         body |-> [approved |-> <<>>,
                                                   message |-> [text |-> "No pending devices to approve"]]]]
                 ELSE dev' = [d EXCEPT !.pc = "approve_start",
                                       !.pending = pending, !.idx = 1]
    /\ DevFrame

(* results.push(r) at the end of one turn of the loop; after the last      *)
(* device the response is sent.                                            *)
PushResult(d, r) ==
    LET results == Append(d.results, r) IN
    IF d.idx = Len(d.pending)
    THEN [d EXCEPT !.results = results, !.pc = "done",
                   !.ret = ApproveAllResponse(results, d.pending)]
    ELSE [d EXCEPT !.results = results, !.pc = "approve_start",
                   !.idx = @ + 1]

(* await sandbox.startProcess(`clawdbot devices approve <requestId> ...`)   *)
ApproveStartResolves ==
    /\ dev.pc = "approve_start"
    /\ dev' = [dev EXCEPT !.pc = "approve_wait",
                          !.attempts = Append(@, dev.pending[dev.idx]),
                          !.running = @ \cup {dev.pending[dev.idx]}]
    /\ DevFrame

(* ... rejects: the catch inside the loop records the failure *)
ApproveStartRejects ==
    /\ dev.pc = "approve_start"
    /\ \E e \in StartRejections :
         dev' = PushResult(
                  [dev EXCEPT !.attempts = Append(@, dev.pending[dev.idx])],
                  [requestId |-> dev.pending[dev.idx], success |-> FALSE,
                   error |-> ErrorMessage(e)])
    /\ DevFrame

(* waitForProcess returns and getLogs resolves *)
ApproveEnds ==
    /\ dev.pc = "approve_wait"
    /\ \E saysApproved \in BOOLEAN, exitCode \in {0, 1} :
         dev' = PushResult(
                  [dev EXCEPT !.running = @ \ {dev.pending[dev.idx]}],
                  [requestId |-> dev.pending[dev.idx],
                   success |-> ApproveSuccess(saysApproved, exitCode)])
    /\ DevFrame

(* waitForProcess throws its timeout (the process is left running), or     *)
(* getLogs rejects                                                         *)
ApproveThrows ==
    /\ dev.pc = "approve_wait"
    /\ \E e \in {TimeoutError, LogsError} :
         dev' = PushResult(
                  [dev EXCEPT !.running =
                      IF e = TimeoutError THEN @ ELSE @ \ {dev.pending[dev.idx]}],
                  [requestId |-> dev.pending[dev.idx], success |-> FALSE,
                   error |-> ErrorMessage(e)])
    /\ DevFrame

(* An approve command whose wait timed out ends in the container *)
ApproveProcExits ==
    /\ dev.pc # "idle"
    /\ \E id \in dev.running :
         /\ ~(dev.pc = "approve_wait" /\ id = dev.pending[dev.idx])
         /\ dev' = [dev EXCEPT !.running = @ \ {id}]
    /\ DevFrame

(* The response is out; the next request can arrive *)
DevicesEnd ==
    /\ dev.pc = "done"
    /\ dev' = DevIdle
    /\ DevFrame

NextDevices ==
    \/ DevicesBegin
    \/ DevEnsureResolves
    \/ DevListStartResolves
    \/ DevOuterThrows
    \/ DevListLogsResolve
    \/ ApproveStartResolves
    \/ ApproveStartRejects
    \/ ApproveEnds
    \/ ApproveThrows
    \/ ApproveProcExits
    \/ DevicesEnd

InitDevices == Init /\ file = TxtJson(SeedManifest)

SpecDevices == InitDevices /\ [][NextDevices]_vars

(* ------------- the note tools of the second-brain skill ---------------- *)

(* A path is a sequence of segments and a segment a sequence of tokens, so  *)
(* that the directory name second-brain-x is the token second-brain        *)
(* followed by the token -x: a prefix of the string is a prefix of tokens.  *)
VAULT_PATH == << << "root" >>, << "second-brain" >> >>

DotDot == << ".." >>

SegmentNames == { DotDot, << "notes" >>, << "second-brain" >>,
                  << "second-brain", "-x" >> }

(* The relative paths a caller passes as path, path_filter or folder *)
RelPaths ==
    { <<>> } \cup { << a >> : a \in SegmentNames }
             \cup { << a, b >> : a \in SegmentNames, b \in SegmentNames }

NoteTools == {"read_note", "write_note", "search_vault", "list_notes"}

RECURSIVE Normalize(_, _)
Normalize(segs, acc) ==
    IF segs = <<>> THEN acc
    ELSE IF Head(segs) = DotDot
    THEN Normalize(Tail(segs),
                   IF acc = <<>> THEN acc ELSE SubSeq(acc, 1, Len(acc) - 1))
    ELSE Normalize(Tail(segs), Append(acc, Head(segs)))

(* path.join(base, rel): concatenated and normalised *)
pathJoin(base, rel) == Normalize(base \o rel, <<>>)

(* path.dirname *)
pathDirname(p) == IF p = <<>> THEN p ELSE SubSeq(p, 1, Len(p) - 1)

(* The string of an absolute path, token by token *)
RECURSIVE PathString(_)
PathString(segs) ==
    IF segs = <<>> THEN <<>>
    ELSE << "/" >> \o Head(segs) \o PathString(Tail(segs))

(* String.prototype.startsWith *)
startsWith(s, prefix) ==
    Len(s) >= Len(prefix) /\ SubSeq(s, 1, Len(prefix)) = prefix

(* The security check of the four tools *)
PassesVaultCheck(fullPath) ==
    startsWith(PathString(fullPath), PathString(VAULT_PATH))

(* The path is the vault directory or lies below it *)
InsideVault(p) ==
    Len(p) >= Len(VAULT_PATH) /\ SubSeq(p, 1, Len(VAULT_PATH)) = VAULT_PATH

(* The directory exists whenever the vault does *)
IsAncestorOfVault(d) ==
    Len(d) <= Len(VAULT_PATH) /\ SubSeq(VAULT_PATH, 1, Len(d)) = d

(* The file-system calls of a tool that passed its check: the paths they   *)
(* read, create, write, search or list.                                    *)
FsCalls(tool, fullPath, exists, dirMissing) ==
    IF tool = "read_note"
    THEN { [path |-> fullPath, call |-> "existsSync"] } \cup
         (IF exists THEN { [path |-> fullPath, call |-> "readFileSync"] } ELSE {})
    ELSE IF tool = "write_note"
    THEN { [path |-> fullPath, call |-> "writeFileSync"] } \cup
         (IF dirMissing /\ ~IsAncestorOfVault(pathDirname(fullPath))
          THEN { [path |-> pathDirname(fullPath), call |-> "mkdirSync"] }
          ELSE {})
    ELSE IF tool = "search_vault"
    THEN { [path |-> fullPath, call |-> "search"] }
    ELSE { [path |-> fullPath, call |-> "existsSync"] } \cup
         (IF exists THEN { [path |-> fullPath, call |-> "listDirectory"] } ELSE {})

NoteFrame ==
    UNCHANGED << file, dirExists, bg, wseq, activeJobs, issued, pc, op, arg,
                 mgr, jobRef, proc, catProc, manifest, cmdIdx, ret, hist,
                 gw, ens, restart, waiter, env, lookup, dev >>

(* A tool is called with a relative path: the path is joined to VAULT_PATH *)
(* and checked                                                             *)
NoteCall ==
    /\ note.pc = "idle"
    /\ \E tool \in NoteTools, rel \in RelPaths :
         LET fullPath == pathJoin(VAULT_PATH, rel) IN
         note' = [pc |-> IF PassesVaultCheck(fullPath) THEN "fs" ELSE "done",
                  tool |-> tool, path |-> rel, fullPath |-> fullPath,
                  touched |-> {},
                  ret |-> IF PassesVaultCheck(fullPath) THEN NoRet
                          ELSE [error |-> "outside vault directory"]]
    /\ NoteFrame

(* The tool goes to the file system with the path it checked *)
NoteFs ==
    /\ note.pc = "fs"
    /\ \E exists \in BOOLEAN, dirMissing \in BOOLEAN :
         note' = [note EXCEPT
                    !.pc = "done",
                    !.touched = FsCalls(note.tool, note.fullPath, exists, dirMissing),
                    !.ret = IF ~exists /\ note.tool \in {"read_note", "list_notes"}
                            THEN [error |-> "not found"]
                            ELSE [path |-> note.path]]
    /\ NoteFrame

NoteReturns ==
    /\ note.pc = "done"
    /\ note' = NoteIdle
    /\ NoteFrame

NextNotes == NoteCall \/ NoteFs \/ NoteReturns

InitNotes == Init /\ file = TxtJson(SeedManifest)

SpecNotes == InitNotes /\ [][NextNotes]_vars

(* ============================ properties =============================== *)

IsInstall(c) == pc[c] # "idle" /\ op[c] \in InstallOps
IsUninstall(c) == pc[c] # "idle" /\ op[c] \in UninstallOps
Returned(c) == pc[c] = "done"

(* C1: every installPlugin / installSkill call that has returned, returned *)
(* its job, and that job is completed or failed, never still installing:   *)
(* whether the command succeeded, could not be started, or timed out.      *)
C1_ReturnedJobIsTerminal ==
    \A c \in Calls :
        (Returned(c) /\ IsInstall(c)) =>
            /\ ret[c] = [job |-> jobRef[c]]
            /\ Job(c).status \in {"completed", "failed"}

(* C1 witness: one install returned completed, another returned after its  *)
(* wait timed out.                                                         *)
C1_Witness ==
    \E c, d \in Calls :
        /\ Returned(c) /\ IsInstall(c) /\ Job(c).status = "completed"
        /\ Returned(d) /\ IsInstall(d) /\ hist[d].thrown = TimeoutError
        /\ Job(d).status = "failed"

(* C2: once a job's status has left installing, the job never changes      *)
(* again (status, completedAt, output, error), whatever the manifest       *)
(* update after completion does.                                           *)
C2_TerminalJobIsImmutable ==
    [][\A m \in Mgrs : \A i \in DOMAIN activeJobs[m] :
          activeJobs[m][i].status # "installing" =>
              /\ i \in DOMAIN activeJobs'[m]
              /\ activeJobs'[m][i] = activeJobs[m][i]]_vars

Writes(c) == pc[c] # "idle" /\ op[c] \in InstallOps \cup UninstallOps

HasKey(entries, key) == \E i \in DOMAIN entries : EntryKey(entries[i]) = key

(* C3: an install returned completed; a listInstalled invoked after that   *)
(* return, with no other writer, lists an entry whose name / slug is the   *)
(* install's target.  Stated for the most favourable run: the manifest     *)
(* file existed before the install, the install's write command has run    *)
(* before the list reads the file, and the list's read succeeded.          *)
C3_CompletedInstallIsListed ==
    \A c, d \in Calls :
        ( /\ Returned(c) /\ IsInstall(c) /\ Job(c).status = "completed"
          /\ Returned(d) /\ op[d] = "listInstalled" /\ c \in hist[d].after
          /\ \A e \in Calls \ {c} : ~Writes(e)
          /\ hist[c].fileAtCall # FileAbsent
          /\ hist[c].landSeq > 0 /\ hist[c].landSeq <= hist[d].readSeq
          /\ hist[d].read = "parsed" )
        => IF op[c] = "installPlugin"
           THEN HasKey(ret[d].plugins, arg[c])
           ELSE HasKey(ret[d].skills, arg[c])

(* No echo of another call has run since call c began *)
NoOtherWriteSince(c) ==
    \A e \in Calls \ {c} : hist[e].landSeq <= hist[c].wAtCall

(* C4: an install that ended failed has left the manifest file as it was   *)
(* when the install was invoked (no other call having written it since).   *)
C4_FailedInstallLeavesManifest ==
    \A c \in Calls :
        ( /\ Returned(c) /\ IsInstall(c) /\ Job(c).status = "failed"
          /\ NoOtherWriteSince(c) )
        => file = hist[c].fileAtCall

(* C4 witness: an install failed inside updateManifest, after the manifest *)
(* had been read, and the file still holds the manifest it held before.    *)
C4_Witness ==
    \E c \in Calls :
        /\ Returned(c) /\ IsInstall(c) /\ Job(c).status = "failed"
        /\ hist[c].read = "parsed"
        /\ "completedAt" \in DOMAIN Job(c)
        /\ NoOtherWriteSince(c)
        /\ file = TxtJson(SeedManifest)

(* C5 as stated: any error thrown while starting the process, waiting for  *)
(* it, reading its logs or updating the manifest (the read of the manifest *)
(* included) yields a returned job that is failed.                         *)
C5_AnyErrorFailsTheJob ==
    \A c \in Calls :
        ( /\ Returned(c) /\ IsInstall(c)
          /\ (hist[c].thrown # NoError \/ hist[c].read = "fallback") )
        => /\ ret[c] = [job |-> jobRef[c]]
           /\ Job(c).status = "failed"

(* C5 amended: installPlugin / installSkill never raise.  An error that    *)
(* reaches their catch (process start, wait, logs, start of a write        *)
(* command) yields the job failed, with error the thrown Error's message,  *)
(* or 'Unknown error' for a thrown value that is no Error.  An error       *)
(* thrown while the manifest is read is absorbed by getManifest: with no   *)
(* other error the job is returned completed, without an error field.      *)
C5_CaughtErrorFailsTheJob ==
    \A c \in Calls :
        (Returned(c) /\ IsInstall(c)) =>
            /\ ~hist[c].raised
            /\ ret[c] = [job |-> jobRef[c]]
            /\ hist[c].thrown # NoError =>
                 /\ Job(c).status = "failed"
                 /\ Job(c).error = IF hist[c].thrown.isError
                                   THEN hist[c].thrown.message
                                   ELSE "Unknown error"
            /\ hist[c].thrown = NoError =>
                 /\ Job(c).status = "completed"
                 /\ "error" \notin DOMAIN Job(c)

(* C5 witness: the start of a manifest write command was rejected after    *)
(* the job had been marked completed; the job came back failed with that   *)
(* error's message.                                                        *)
C5_Witness ==
    \E c \in Calls :
        /\ Returned(c) /\ IsInstall(c)
        /\ hist[c].thrown = StartError
        /\ hist[c].read # "none"
        /\ Job(c).status = "failed"
        /\ Job(c).error = "start failed"

Entries(doc) ==
    { PluginsOf(doc)[i] : i \in DOMAIN PluginsOf(doc) } \cup
    { SkillsOf(doc)[i] : i \in DOMAIN SkillsOf(doc) }

(* The entry install c adds to the manifest *)
NewEntry(c) == ManifestEntry(JobType(op[c]), arg[c], Job(c).startedAt)

(* Installs c and d of different targets both read the manifest file       *)
(* before the write of either ran; both writes have run since, c's first,  *)
(* d's last of all.                                                        *)
LostUpdateRace(c, d) ==
    /\ c # d /\ IsInstall(c) /\ IsInstall(d)
    /\ arg[c] # arg[d]
    /\ hist[c].seen # NoManifest /\ hist[d].seen # NoManifest
    /\ hist[c].landOk /\ hist[d].landOk
    /\ hist[c].readSeq < hist[c].landSeq /\ hist[d].readSeq < hist[c].landSeq
    /\ hist[c].landSeq < hist[d].landSeq
    /\ hist[d].landSeq = wseq

(* C6: lost update.  When two installs of different targets both read the  *)
(* manifest before either writes it, the final manifest holds the entry of *)
(* the later write and not the entry of the earlier one, and both jobs     *)
(* were returned completed.                                                *)
C6_LostUpdate ==
    \A c, d \in Calls :
        LostUpdateRace(c, d) =>
            /\ file.k = "json"
            /\ NewEntry(d) \in Entries(file.v)
            /\ NewEntry(c) \notin Entries(file.v)
            /\ Returned(c) /\ Job(c).status = "completed"
            /\ Returned(d) /\ Job(d).status = "completed"

(* C6 witness: such a race between installs run by two managers, on a      *)
(* manifest that already held entries.                                     *)
C6_Witness ==
    \E c, d \in Calls :
        /\ LostUpdateRace(c, d)
        /\ mgr[c] # mgr[d]
        /\ hist[c].seen = TxtJson(SeedManifest)
        /\ hist[d].seen = TxtJson(SeedManifest)
        /\ hist[c].read = "parsed" /\ hist[d].read = "parsed"

(* C7: an uninstall that returned true, its write having replaced a        *)
(* readable manifest with nothing else writing meanwhile, removed exactly  *)
(* the entries whose name / slug equals the argument and left every other  *)
(* entry of both lists, and their order, as they were.                     *)
C7_UninstallRemovesOnlyTarget ==
    \A c \in Calls :
        ( /\ Returned(c) /\ IsUninstall(c) /\ ret[c] = [value |-> TRUE]
          /\ hist[c].fileAtCall.k = "json"
          /\ hist[c].landOk
          /\ hist[c].landSeq = hist[c].wAtCall + 1
          /\ hist[c].landSeq = wseq
          /\ file.k = "json" )
        => LET before == hist[c].fileAtCall.v
               after == file.v
           IN IF op[c] = "uninstallPlugin"
              THEN /\ PluginsOf(after) =
                        SelectSeq(PluginsOf(before), LAMBDA p : p.name # arg[c])
                   /\ SkillsOf(after) = SkillsOf(before)
              ELSE /\ SkillsOf(after) =
                        SelectSeq(SkillsOf(before), LAMBDA k : k.slug # arg[c])
                   /\ PluginsOf(after) = PluginsOf(before)

(* C8 as stated: uninstallPlugin / uninstallSkill return true only when    *)
(* process start, wait, log retrieval and manifest removal (its read of    *)
(* the manifest included) all finished without an exception.               *)
C8_TrueOnlyWithoutException ==
    \A c \in Calls :
        (Returned(c) /\ IsUninstall(c) /\ ret[c] = [value |-> TRUE]) =>
            /\ hist[c].thrown = NoError
            /\ hist[c].read # "fallback"

(* C8 amended: uninstallPlugin / uninstallSkill never raise.  They return  *)
(* false exactly when an exception reached their catch (process start,     *)
(* wait or its timeout, log retrieval, start of the manifest write), and   *)
(* true otherwise, the manifest write having been started; an exception    *)
(* thrown while the manifest is read is absorbed by getManifest and does   *)
(* not make the call return false.                                         *)
C8_FalseIffCaughtException ==
    \A c \in Calls :
        (Returned(c) /\ IsUninstall(c)) =>
            /\ ~hist[c].raised
            /\ ret[c] \in {[value |-> TRUE], [value |-> FALSE]}
            /\ (ret[c] = [value |-> FALSE]) <=> (hist[c].thrown # NoError)
            /\ (ret[c] = [value |-> TRUE]) => hist[c].dispatched

(* C8 witness: one uninstall returned false after its wait timed out, one  *)
(* after the start of its manifest write was rejected.                     *)
C8_Witness ==
    \E c, d \in Calls :
        /\ Returned(c) /\ IsUninstall(c) /\ ret[c] = [value |-> FALSE]
        /\ hist[c].thrown = TimeoutError
        /\ Returned(d) /\ IsUninstall(d) /\ ret[d] = [value |-> FALSE]
        /\ hist[d].thrown = StartError /\ hist[d].read # "none"

(* C9: listInstalled never raises, and returns a plugins list and a skills *)
(* list; both are empty when the manifest file is absent, empty, could not *)
(* be read (the read process did not start, timed out, or its logs could   *)
(* not be had) or is not parsable.                                         *)
C9_ListNeverFails ==
    \A c \in Calls :
        (Returned(c) /\ op[c] = "listInstalled") =>
            /\ ~hist[c].raised
            /\ DOMAIN ret[c] = {"plugins", "skills"}
            /\ ( \/ hist[c].read = "fallback"
                 \/ hist[c].seen \in {FileAbsent, TxtEmpty, TxtGarbage} )
               => ret[c] = [plugins |-> <<>>, skills |-> <<>>]

(* C9 witness: one list found a file that does not parse, another could   *)
(* not read the file at all; both returned the empty lists.                *)
C9_Witness ==
    \E c, d \in Calls :
        /\ Returned(c) /\ op[c] = "listInstalled"
        /\ hist[c].seen = TxtGarbage /\ hist[c].read = "fallback"
        /\ ret[c] = [plugins |-> <<>>, skills |-> <<>>]
        /\ Returned(d) /\ op[d] = "listInstalled"
        /\ hist[d].seen = NoManifest /\ hist[d].read = "fallback"
        /\ ret[d] = [plugins |-> <<>>, skills |-> <<>>]

(* The job ids manager m has issued *)
IssuedBy(m) == { jobRef[d] : d \in { e \in Calls : IsInstall(e) /\ mgr[e] = m } }

(* C10: getJob with an id its manager never issued returns undefined, in   *)
(* every state of the job table, without raising; the status route answers *)
(* such an id with 404 'Job not found'.                                    *)
C10_UnknownJobIsNotFound ==
    \A c \in Calls :
        /\ (Returned(c) /\ op[c] = "getJob" /\ jobRef[c] \notin IssuedBy(mgr[c]))
             => ret[c] = Undefined
        /\ (Returned(c) /\ op[c] = "statusRoute")
             => ret[c] = [status |-> 404, body |-> [error |-> "Job not found"]]

(* C10 witness: getJob on a manager whose table holds a job, asked for an  *)
(* id that manager never issued, returned undefined.                       *)
C10_Witness ==
    \E c, d \in Calls :
        /\ Returned(d) /\ IsInstall(d)
        /\ Returned(c) /\ op[c] = "getJob" /\ mgr[c] = mgr[d]
        /\ jobRef[c] # jobRef[d]
        /\ activeJobs[mgr[c]] # <<>>
        /\ ret[c] = Undefined

IdsIn(jobs) == { jobs[i].id : i \in DOMAIN jobs }

(* C11: job ids are unique.  No two install calls received the same id,    *)
(* no job table holds two records with one id, and each manager's table    *)
(* holds exactly one record for each id that manager issued.               *)
C11_JobIdsUnique ==
    /\ \A c, d \in Calls :
         (c # d /\ IsInstall(c) /\ IsInstall(d)) => jobRef[c] # jobRef[d]
    /\ \A m \in Mgrs :
         /\ IdsIn(activeJobs[m]) = IssuedBy(m)
         /\ Len(activeJobs[m]) = Cardinality(IssuedBy(m))

(* C11 witness: one manager ran two installs; its table holds two records  *)
(* with different ids.                                                     *)
C11_Witness ==
    \E c, d \in Calls :
        /\ c # d /\ Returned(c) /\ IsInstall(c) /\ Returned(d) /\ IsInstall(d)
        /\ mgr[c] = mgr[d]
        /\ Len(activeJobs[mgr[c]]) = 2
        /\ activeJobs[mgr[c]][1].id # activeJobs[mgr[c]][2].id

(* C12: a status request for the job id that an earlier, completed         *)
(* install returned answers 200 with that job's record.                    *)
C12_StatusRouteFindsIssuedJob ==
    \A c, d \in Calls :
        ( /\ Returned(c) /\ op[c] = "statusRoute"
          /\ Returned(d) /\ IsInstall(d) /\ d \in hist[c].after
          /\ Job(d).status = "completed"
          /\ jobRef[c] = jobRef[d] )
        => ret[c] = [status |-> 200, body |-> Job(d)]

(* C13: at most one gateway process is active, whatever the interleaving   *)
(* of ensureRunning calls and restart requests.                            *)
C13_AtMostOneGateway == Cardinality(gw) <= 1

IsRestart(c) == pc[c] # "idle" /\ op[c] = "restartRoute"

(* C14: a restart invokes ensureRunning only after the lookup and, when an *)
(* instance was found, after the kill attempt has returned (resolved or    *)
(* thrown) and the grace period has been waited; while the kill or the     *)
(* grace period is pending ensureRunning has not been invoked; and every   *)
(* restart whose lookup returned does invoke it, instance or not, kill     *)
(* thrown or not.                                                          *)
C14_RestartOrder ==
    \A c \in Calls :
        IsRestart(c) =>
            /\ ens[c] # "none" =>
                 /\ restart[c].looked
                 /\ restart[c].found # Null =>
                      /\ restart[c].kill \in {"ok", "threw"}
                      /\ restart[c].graced
            /\ pc[c] \in {"find", "kill", "grace"} => ens[c] = "none"
            /\ (Returned(c) /\ restart[c].looked) => ens[c] # "none"

(* C14 witness: one restart found no instance, another found one whose     *)
(* kill threw; both went on to ensureRunning.                              *)
C14_Witness ==
    \E c, d \in Calls :
        /\ IsRestart(c) /\ restart[c].looked /\ restart[c].found = Null
        /\ ens[c] # "none"
        /\ IsRestart(d) /\ restart[d].kill = "threw" /\ restart[d].graced
        /\ ens[d] # "none"

(* C15: a restart whose lookup returned has responded by the time its      *)
(* ensureRunning task exists, and the response is the success response     *)
(* whatever that task does afterwards (pending, done or failed);           *)
(* previousProcessId is in it exactly when an instance was found, and is   *)
(* that instance's id.                                                     *)
C15_RestartResponds ==
    \A c \in Calls :
        (IsRestart(c) /\ ens[c] # "none") =>
            /\ Returned(c)
            /\ ret[c].status = 200
            /\ ret[c].body.success
            /\ ("previousProcessId" \in DOMAIN ret[c].body)
                 <=> (restart[c].found # Null)
            /\ restart[c].found # Null =>
                 ret[c].body.previousProcessId = restart[c].found.id
            /\ ~hist[c].raised

(* C15 witness: the start of the new instance failed in the background     *)
(* after the success response of a restart that had found an instance.     *)
C15_Witness ==
    \E c \in Calls :
        /\ IsRestart(c) /\ Returned(c) /\ ens[c] = "failed"
        /\ restart[c].found # Null
        /\ ret[c].status = 200
        /\ gw = {}

AllowList == {"a", "b", "c", "d", "q", "0", "@", "/", "-", "."}

AllowListed(target) == \A i \in DOMAIN target : target[i] \in AllowList

(* C17: no install or uninstall command has been started for a target      *)
(* with a character outside the allow-list.                                *)
C17_OnlyAllowListedTargetsRun ==
    \A c \in Calls :
        (pc[c] # "idle" /\ op[c] \in InstallOps \cup UninstallOps
           /\ proc[c] # "none")
        => AllowListed(arg[c])

Names(entries) == [i \in DOMAIN entries |-> EntryKey(entries[i])]

(* Install c of a plugin found no manifest (no file, or an empty one), was *)
(* returned completed, and its write command has run.                      *)
InstalledFromEmpty(c) ==
    /\ Returned(c) /\ op[c] = "installPlugin" /\ Job(c).status = "completed"
    /\ CountQuotes(arg[c]) = 0
    /\ hist[c].fileAtCall \in {FileAbsent, TxtEmpty}
    /\ hist[c].landSeq = 1

(* C19: round trip from an empty manifest.  Once the write command of a    *)
(* completed installPlugin(t) has run, the manifest holds exactly one      *)
(* plugin entry, named t, and no skill; and once the write command of a    *)
(* following uninstallPlugin(t) that returned true has run, the plugin     *)
(* list is empty again and there is still no skill.                        *)
C19_RoundTrip ==
    \A c, d \in Calls :
        InstalledFromEmpty(c) =>
            /\ wseq = 1 =>
                 /\ file.k = "json"
                 /\ Names(PluginsOf(file.v)) = << arg[c] >>
                 /\ SkillsOf(file.v) = <<>>
            /\ ( /\ Returned(d) /\ op[d] = "uninstallPlugin"
                 /\ arg[d] = arg[c] /\ c \in hist[d].after
                 /\ ret[d] = [value |-> TRUE]
                 /\ hist[d].landSeq = 2 /\ wseq = 2 )
               => /\ file.k = "json"
                  /\ PluginsOf(file.v) = <<>>
                  /\ SkillsOf(file.v) = <<>>

(* C20: an install request that has returned a completed job has itself    *)
(* set a gateway restart going (the lookup of the running instance, or the *)
(* start of a new one).                                                    *)
C20_InstallRestartsGateway ==
    \A c \in Calls :
        (Returned(c) /\ IsInstall(c) /\ Job(c).status = "completed")
        => (restart[c].looked \/ ens[c] # "none")

(* C18: while the process has not reached a terminal status, a             *)
(* waitForProcess call is never still waiting timeoutMs + pollInterval     *)
(* after it was invoked, and its Timeout comes no later than that: within  *)
(* 120 s plus one interval for installs and uninstalls, within 5 s plus    *)
(* one interval for the manifest read.                                     *)
C18_TimeoutInTime ==
    LET limit == IF waiter.site = "getManifest" THEN 5000 ELSE 120000 IN
    /\ (waiter.pc = "polling" /\ waiter.status = "running") =>
          waiter.elapsed < limit + waiter.poll
    /\ waiter.pc = "timeout" =>
          /\ waiter.elapsed >= limit
          /\ waiter.elapsed < limit + waiter.poll

(* C18 witness: the wait of a manifest read whose process never ended,    *)
(* polling every 300 ms, threw Timeout after 5100 ms.                      *)
C18_Witness ==
    /\ waiter.pc = "timeout"
    /\ waiter.site = "getManifest"
    /\ waiter.status = "running"
    /\ waiter.poll = 300
    /\ waiter.elapsed = 5100

(* What the caller of an operation gets to see of it: the job's status,    *)
(* error and output, the boolean, or the lists.                            *)
Outcome(c) ==
    IF op[c] \in InstallOps
    THEN [status |-> Job(c).status, output |-> Job(c).output,
          error |-> IF "error" \in DOMAIN Job(c) THEN Job(c).error ELSE Null]
    ELSE ret[c]

(* Calls c and d are the same request and met the same process outcomes:   *)
(* the exit of their command, the error thrown, the manifest text read.    *)
SameRequestAndOutcomes(c, d) ==
    /\ op[c] = op[d] /\ arg[c] = arg[d]
    /\ proc[c] = proc[d]
    /\ hist[c].thrown = hist[d].thrown
    /\ hist[c].read = hist[d].read
    /\ hist[c].seen = hist[d].seen

Started(c) == pc[c] # "idle" /\ proc[c] # "none"

C23_SuccessfulJobRecord ==
    \A c \in Calls :
        ( /\ Returned(c) /\ IsInstall(c)
          /\ proc[c] = "completed" /\ hist[c].thrown = NoError )
        => /\ ret[c] = [job |-> jobRef[c]]
           /\ Job(c).status = "completed"
           /\ Job(c).type = JobType(op[c]) /\ Job(c).target = arg[c]
           /\ {"startedAt", "completedAt"} \subseteq DOMAIN Job(c)
           /\ "error" \notin DOMAIN Job(c)
           /\ Job(c).output = << ProcLogs(proc[c]).stdout >>

(* listInstalled call c found a parsable manifest in the file when it was  *)
(* invoked, and no write command has run since.                            *)
ListOfParsableFile(c) ==
    /\ Returned(c) /\ op[c] = "listInstalled"
    /\ hist[c].fileAtCall.k = "json"
    /\ wseq = hist[c].wAtCall /\ file = hist[c].fileAtCall

(* C24 as stated: when the manifest file holds a parsable manifest,        *)
(* listInstalled returns its plugins and skills lists verbatim.            *)
C24_ListIsVerbatim ==
    \A c \in Calls :
        ListOfParsableFile(c) =>
            ret[c] = [plugins |-> PluginsOf(hist[c].fileAtCall.v),
                      skills |-> SkillsOf(hist[c].fileAtCall.v)]

(* C24 amended: when the manifest file holds a parsable manifest and the   *)
(* read of it succeeds (the cat process starts, ends within its timeout,   *)
(* and its logs are had), listInstalled returns the plugins and skills     *)
(* lists of the file verbatim: same entries, same order, every field       *)
(* unchanged, a list the file does not have as the empty list; when the    *)
(* read fails it returns two empty lists.                                  *)
C24_ListIsVerbatimWhenRead ==
    \A c \in Calls :
        ListOfParsableFile(c) =>
            /\ hist[c].read = "parsed" =>
                 ret[c] = [plugins |-> PluginsOf(hist[c].fileAtCall.v),
                           skills |-> SkillsOf(hist[c].fileAtCall.v)]
            /\ hist[c].read = "fallback" =>
                 ret[c] = [plugins |-> <<>>, skills |-> <<>>]
            /\ hist[c].read \in {"parsed", "fallback"}

(* C24 witness: a list read the manifest of two plugins (one with a        *)
(* version) and one skill, and returned them.                              *)
C24_Witness ==
    \E c \in Calls :
        /\ ListOfParsableFile(c) /\ hist[c].read = "parsed"
        /\ Len(ret[c].plugins) = 2 /\ Len(ret[c].skills) = 1
        /\ ret[c].plugins[2] = [name |-> <<"b">>,
                                installedAt |-> Stamp(0, "seed"),
                                version |-> "1.0.0"]
        /\ ret[c].plugins[1].name = <<"a">>

(* C25: an install has registered its job before it starts its command.   *)
(* From the moment the call is about to start the command, and for as      *)
(* long as the process exists, getJob(id) on the call's manager returns    *)
(* the job of this call; until the wait has ended that job shows           *)
(* installing.                                                             *)
C25_RegisteredBeforeStart ==
    \A c \in Calls :
        IsInstall(c) =>
            LET job == getJob(activeJobs[mgr[c]], jobRef[c]) IN
            /\ (pc[c] = "start" \/ proc[c] # "none") =>
                 /\ job # Undefined
                 /\ job.id = jobRef[c] /\ job.target = arg[c]
                 /\ job.type = JobType(op[c])
            /\ pc[c] \in {"start", "wait"} => job.status = "installing"

(* C25 witness: the process of an install has ended, the wait has not yet  *)
(* returned, and the job in the table shows installing.                    *)
C25_Witness ==
    \E c \in Calls :
        /\ IsInstall(c) /\ pc[c] = "wait" /\ proc[c] = "failed"
        /\ getJob(activeJobs[mgr[c]], jobRef[c]).status = "installing"
        /\ Len(activeJobs[mgr[c]]) = 2

(* C26: in every state, for every job of every job table: completedAt is   *)
(* set exactly when the status is completed or failed, and error is set    *)
(* exactly when the status is failed.                                      *)
C26_JobFieldsMatchStatus ==
    \A m \in Mgrs : \A i \in DOMAIN activeJobs[m] :
        LET job == activeJobs[m][i] IN
        /\ job.status \in {"installing", "completed", "failed"}
        /\ ("completedAt" \in DOMAIN job) <=> (job.status \in {"completed", "failed"})
        /\ ("error" \in DOMAIN job) <=> (job.status = "failed")

(* C26 witness: one table holds a completed job and a job that failed      *)
(* after it had been marked completed (the start of a manifest write       *)
(* command was rejected).                                                  *)
C26_Witness ==
    \E c, d \in Calls :
        /\ IsInstall(c) /\ IsInstall(d) /\ mgr[c] = mgr[d]
        /\ Returned(c) /\ Job(c).status = "completed"
        /\ Returned(d) /\ Job(d).status = "failed"
        /\ hist[d].thrown = StartError /\ hist[d].read # "none"

(* C27: an install returned completed; the file held a readable manifest   *)
(* when it was invoked, no other write command has run since, and its own  *)
(* write replaced the file.  Then the list of its type is the earlier list *)
(* with one entry appended, {name / slug: target, installedAt: the job's   *)
(* startedAt}, and the other list is as it was.                            *)
C27_InstallAppendsOneEntry ==
    \A c \in Calls :
        ( /\ Returned(c) /\ IsInstall(c) /\ Job(c).status = "completed"
          /\ hist[c].fileAtCall.k = "json"
          /\ hist[c].landOk
          /\ hist[c].landSeq = hist[c].wAtCall + 1
          /\ hist[c].landSeq = wseq
          /\ file.k = "json" )
        => LET before == hist[c].fileAtCall.v
               after == file.v
           IN IF op[c] = "installPlugin"
              THEN /\ PluginsOf(after) =
                        Append(PluginsOf(before),
                               [name |-> arg[c], installedAt |-> Job(c).startedAt])
                   /\ SkillsOf(after) = SkillsOf(before)
              ELSE /\ SkillsOf(after) =
                        Append(SkillsOf(before),
                               [slug |-> arg[c], installedAt |-> Job(c).startedAt])
                   /\ PluginsOf(after) = PluginsOf(before)

(* C28: no step of an uninstallPlugin / uninstallSkill call (its start,    *)
(* and every continuation after one of its awaits) creates, changes or     *)
(* removes a job record of any manager, or changes the process of another  *)
(* call, whatever else is in flight.                                       *)
C28_UninstallLeavesJobsAlone ==
    [][\A d \in Calls :
          (op'[d] \in UninstallOps /\ pc'[d] # pc[d]) =>
              /\ activeJobs' = activeJobs
              /\ issued' = issued
              /\ \A c \in Calls \ {d} : proc'[c] = proc[c]]_vars

(* C28 witness: an uninstall returned true while an install of the same    *)
(* target, begun before it on the same manager, is still waiting for its   *)
(* running process, its job installing.                                    *)
C28_Witness ==
    \E c, d \in Calls :
        /\ c < d /\ IsInstall(c) /\ IsUninstall(d)
        /\ arg[c] = arg[d] /\ mgr[c] = mgr[d]
        /\ JobType(op[c]) = (IF op[d] = "uninstallPlugin" THEN "plugin" ELSE "skill")
        /\ Returned(d) /\ ret[d] = [value |-> TRUE]
        /\ pc[c] = "wait" /\ proc[c] = "running"
        /\ Job(c).status = "installing"

(* The install calls made through manager m *)
InstallsOn(m) == { c \in Calls : IsInstall(c) /\ mgr[c] = m }

(* What a lookup that has just returned handed to its caller *)
LookupIsLocal ==
    /\ lookup.op = "getJob" =>
         /\ lookup.ret # Undefined =>
              \E c \in InstallsOn(lookup.mgr) :
                  jobRef[c] = lookup.id /\ lookup.ret = Job(c)
         /\ \A d \in Calls :
              (IsInstall(d) /\ mgr[d] # lookup.mgr) => lookup.ret # Job(d)
    /\ lookup.op = "getAllJobs" =>
         /\ \A i \in DOMAIN lookup.ret :
              \E c \in InstallsOn(lookup.mgr) : lookup.ret[i] = Job(c)
         /\ \A d \in Calls :
              (IsInstall(d) /\ mgr[d] # lookup.mgr) =>
                  \A i \in DOMAIN lookup.ret : lookup.ret[i] # Job(d)

(* A step that changes the job table of manager m is a step of an install  *)
(* that was invoked on m.                                                  *)
TableChangesAreLocal ==
    \A m \in Mgrs :
        activeJobs'[m] # activeJobs[m] =>
            \E c \in Calls :
                /\ mgr'[c] = m /\ op'[c] \in InstallOps /\ pc'[c] # pc[c]
                /\ \A n \in Mgrs \ {m} : activeJobs'[n] = activeJobs[n]

(* C29: the job table belongs to one manager.  getJob and getAllJobs of a  *)
(* manager return only jobs created through that manager, never a job of   *)
(* another one, and an operation on one manager never changes the table    *)
(* of another.                                                             *)
C29_JobTableIsLocal == []LookupIsLocal /\ [][TableChangesAreLocal]_vars

(* C29 witness: getJob on one manager, asked for the id of a job that      *)
(* another manager holds, returned undefined.                              *)
C29_Witness ==
    \E d \in Calls :
        /\ IsInstall(d) /\ lookup.op = "getJob"
        /\ lookup.mgr # mgr[d] /\ lookup.id = jobRef[d]
        /\ activeJobs[lookup.mgr] # <<>>
        /\ lookup.ret = Undefined

(* Position of the job with this id in a list of jobs *)
PositionOf(jobs, id) == CHOOSE i \in DOMAIN jobs : jobs[i].id = id

(* getAllJobs has just returned: its result is the whole table of the      *)
(* manager, one job for each install ever invoked on it, those invoked     *)
(* earlier first.                                                          *)
AllJobsIsWholeTable ==
    lookup.op = "getAllJobs" =>
        LET m == lookup.mgr IN
        /\ lookup.ret = activeJobs[m]
        /\ Len(lookup.ret) = Cardinality(InstallsOn(m))
        /\ \A c \in InstallsOn(m) : lookup.ret[PositionOf(lookup.ret, jobRef[c])] = Job(c)
        /\ \A c, d \in InstallsOn(m) :
             c < d => PositionOf(lookup.ret, jobRef[c]) < PositionOf(lookup.ret, jobRef[d])

(* No step removes a job or moves it in its table, and a step that is a    *)
(* lookup changes no table and no job.                                     *)
TableOnlyGrows ==
    /\ \A m \in Mgrs :
         /\ Len(activeJobs'[m]) >= Len(activeJobs[m])
         /\ \A i \in DOMAIN activeJobs[m] : activeJobs'[m][i].id = activeJobs[m][i].id
    /\ lookup' # lookup => (activeJobs' = activeJobs /\ issued' = issued)

(* C30: getAllJobs returns every job ever registered on its manager, in    *)
(* registration order, whatever their status; jobs are never removed from  *)
(* the table; getJob and getAllJobs change neither the table nor a job.    *)
C30_AllJobsKept == []AllJobsIsWholeTable /\ [][TableOnlyGrows]_vars

(* C30 witness: getAllJobs returned two jobs, the first one failed, the     *)
(* second one still installing.                                            *)
C30_Witness ==
    /\ lookup.op = "getAllJobs"
    /\ Len(lookup.ret) = 2
    /\ lookup.ret[1].status = "failed"
    /\ lookup.ret[2].status = "installing"
    /\ lookup.ret[1].id # lookup.ret[2].id

(* An install call whose wait for the install command timed out *)
InstallTimedOut(c) ==
    IsInstall(c) /\ Returned(c) /\ hist[c].thrown = TimeoutError

(* The step at which the wait of an install throws its timeout: the        *)
(* process is left running and the job is failed in that same step.        *)
TimeoutFailsWithoutKill ==
    \A c \in Calls :
        (op[c] \in InstallOps /\ pc[c] = "wait"
            /\ hist[c].thrown = NoError /\ hist'[c].thrown = TimeoutError) =>
                /\ proc[c] = "running" /\ proc'[c] = "running"
                /\ MapGet(activeJobs'[mgr[c]], jobRef[c]).status = "failed"
                /\ file' = file /\ bg' = bg

(* The process of a timed-out install ends later: nothing else changes *)
LateExitChangesNothing ==
    \A c \in Calls :
        (InstallTimedOut(c) /\ proc[c] = "running" /\ proc'[c] # "running") =>
            /\ activeJobs' = activeJobs
            /\ file' = file /\ bg' = bg /\ wseq' = wseq
            /\ ret' = ret

(* A timed-out install has a failed job carrying the timeout's message,    *)
(* and has handed no manifest write to the container.                      *)
TimedOutJobStaysFailed ==
    \A c \in Calls :
        InstallTimedOut(c) =>
            /\ Job(c).status = "failed"
            /\ Job(c).error = ErrorMessage(TimeoutError)
            /\ ~hist[c].dispatched
            /\ hist[c].landSeq = 0
            /\ proc[c] # "none"

(* C31: when the wait of an install times out the process is left running  *)
(* (neither the wait nor the manager kills it) and the job is failed in    *)
(* that step; when the process ends later, neither the job table nor the   *)
(* manifest file changes, and the job stays failed with the timeout's      *)
(* message.                                                                *)
C31_TimeoutLeavesProcessAlone ==
    /\ []TimedOutJobStaysFailed
    /\ [][TimeoutFailsWithoutKill /\ LateExitChangesNothing]_vars

(* C31 witness: an install returned failed on a timeout, and its process   *)
(* has since ended as completed.                                           *)
C31_Witness ==
    \E c \in Calls :
        /\ InstallTimedOut(c)
        /\ proc[c] = "completed"
        /\ Job(c).status = "failed"

(* C34: an install whose job is completed, or that has handed a manifest   *)
(* write with its entry to the container, had its install command end      *)
(* successfully (status completed); a command that ended failed yields     *)
(* neither.                                                                *)
C34_CompletedOnlyOnSuccess ==
    \A c \in Calls :
        (IsInstall(c) /\ (Job(c).status = "completed" \/ hist[c].dispatched)) =>
            proc[c] = "completed"

(* The manifest read inside the update of call c failed *)
ReadFellBack(c) == Writes(c) /\ hist[c].read = "fallback"

(* The empty manifest with the effect of call c applied to it *)
FallbackDoc(c) ==
    [plugins |-> IF op[c] = "installPlugin" THEN << NewEntry(c) >> ELSE <<>>,
     skills |-> IF op[c] = "installSkill" THEN << NewEntry(c) >> ELSE <<>>,
     lastUpdated |-> Stamp(c, "lastUpdated")]

(* The write command of call c has run, and was the last to run *)
WroteLast(c) == hist[c].landSeq > 0 /\ hist[c].landSeq = wseq

(* C35: after an install or uninstall whose read of an existing manifest  *)
(* failed, and whose write command has run (last of all), the file holds   *)
(* the manifest with only the new entry (install) or no entry             *)
(* (uninstall).                                                            *)
C35_FallbackRewritesFile ==
    \A c \in Calls :
        ( /\ ReadFellBack(c) /\ Returned(c) /\ WroteLast(c)
          /\ hist[c].fileAtCall = TxtJson(SeedManifest) ) =>
            file = TxtJson(FallbackDoc(c))

(* No two entries of the list carry the same name / slug *)
KeysDistinct(entries) ==
    \A i, j \in DOMAIN entries :
        EntryKey(entries[i]) = EntryKey(entries[j]) => i = j

(* The behaviour started without a manifest (no file, or an empty one) *)
StartedFromEmptyManifest ==
    \E c \in Calls :
        /\ Writes(c) /\ hist[c].wAtCall = 0
        /\ hist[c].fileAtCall \in {FileAbsent, TxtEmpty}

(* C36: starting from an empty manifest, whatever installs and uninstalls  *)
(* have run, a manifest file that parses never holds two plugin entries    *)
(* with the same name nor two skill entries with the same slug.            *)
C36_NoDuplicateEntries ==
    (StartedFromEmptyManifest /\ JSONparses(file)) =>
        /\ KeysDistinct(PluginsOf(JSONparse(file)))
        /\ KeysDistinct(SkillsOf(JSONparse(file)))

(* The list of the manifest that call c works on *)
KindOf(c) == IF op[c] \in {"installPlugin", "uninstallPlugin"}
             THEN "plugin" ELSE "skill"

ListOf(c, doc) == IF KindOf(c) = "plugin" THEN PluginsOf(doc) ELSE SkillsOf(doc)

(* Uninstall c returned true, and its write took its target's entry out    *)
(* of a manifest that held one when c was called.                          *)
RemovedEntry(c) ==
    /\ IsUninstall(c) /\ Returned(c) /\ ret[c] = [value |-> TRUE]
    /\ hist[c].landSeq > 0 /\ hist[c].landOk
    /\ JSONparses(hist[c].fileAtCall)
    /\ HasKey(ListOf(c, JSONparse(hist[c].fileAtCall)), arg[c])

(* d installs or uninstalls another target than c's *)
OtherTarget(c, d) ==
    /\ d # c /\ Writes(d)
    /\ (arg[d] # arg[c] \/ KindOf(d) # KindOf(c))

(* The entry of c's target is in the manifest file now *)
EntryIsBack(c) ==
    JSONparses(file) /\ HasKey(ListOf(c, JSONparse(file)), arg[c])

(* C37: once an uninstall that returned true has removed its target's      *)
(* entry, the entry is not in the manifest again as long as the only       *)
(* other calls are installs and uninstalls of other targets, however they  *)
(* interleave with it.                                                     *)
C37_RemovedEntryStaysOut ==
    \A c, d \in Calls :
        (RemovedEntry(c) /\ OtherTarget(c, d)) => ~EntryIsBack(c)

(* C37 amended: right after the uninstall's write the entry is gone; with  *)
(* only calls of other targets around, it is in the file again only        *)
(* through the lost update: the other call read the file before the        *)
(* uninstall's write ran, and its own write of what it read ran after.     *)
C37_BackOnlyByLostUpdate ==
    \A c \in Calls :
        RemovedEntry(c) =>
            /\ WroteLast(c) => ~EntryIsBack(c)
            /\ \A d \in Calls :
                  (OtherTarget(c, d) /\ EntryIsBack(c)) =>
                      /\ hist[d].read = "parsed"
                      /\ hist[d].readSeq < hist[c].landSeq
                      /\ hist[d].landSeq > hist[c].landSeq
                      /\ hist[d].landOk

(* C37 witness: uninstallPlugin of a returned true and its write removed   *)
(* a; an install or uninstall of another target, in flight at the same     *)
(* time, has written since, and a is in the plugins list again.            *)
C37_Witness ==
    \E c, d \in Calls :
        /\ RemovedEntry(c) /\ OtherTarget(c, d)
        /\ op[c] = "uninstallPlugin" /\ arg[c] = <<"a">>
        /\ hist[d].landSeq > hist[c].landSeq
        /\ EntryIsBack(c)

(* C38: an uninstallPlugin / uninstallSkill call that returned false has   *)
(* handed no write to the container, and (no other call having written     *)
(* since it was invoked) the manifest file is what it was at the call:     *)
(* same entries, same lastUpdated.                                         *)
C38_FalseUninstallLeavesManifest ==
    \A c \in Calls :
        (IsUninstall(c) /\ Returned(c) /\ ret[c] = [value |-> FALSE]) =>
            /\ ~hist[c].dispatched
            /\ hist[c].landSeq = 0
            /\ \A p \in bg : p.by # c
            /\ NoOtherWriteSince(c) => file = hist[c].fileAtCall

(* C38 witness: an uninstall of a listed target got as far as its manifest *)
(* update, read the manifest, and returned false because the write command *)
(* could not be started; the file still lists the target.                  *)
C38_Witness ==
    \E c \in Calls :
        /\ IsUninstall(c) /\ Returned(c) /\ ret[c] = [value |-> FALSE]
        /\ hist[c].read = "parsed" /\ hist[c].thrown = StartError
        /\ file = TxtJson(SeedManifest)
        /\ HasKey(ListOf(c, JSONparse(file)), arg[c])

(* The list command's logs have been read by the request being handled,    *)
(* and its stdout held one JSON object between log text.                   *)
ListWasRead == dev.pc \notin {"idle", "ensure", "list_start", "list_wait"}

(* C32: when stdout is log text, one JSON object and more log text, with   *)
(* or without braces in the log text, GET /devices answers that object     *)
(* and approve-all takes its pending list from that object.                *)
C32_ObjectIsExtracted ==
    (ListWasRead /\ dev.hasObject) =>
        /\ dev.route = "devices" =>
              dev.ret = [status |-> 200, body |-> [pending |-> dev.listed]]
        /\ dev.route = "approveAll" =>
              /\ dev.ret.status # 500
              /\ dev.listed # <<>> => dev.pending = dev.listed

(* The approve-all request being handled has got its pending list *)
InApproveLoop ==
    dev.pc # "idle" /\ dev.route = "approveAll" /\ dev.pending # <<>>

Ids(seq) == { seq[i] : i \in DOMAIN seq }

(* The approve commands attempted so far are the first devices of the      *)
(* pending list, in its order, one result per finished attempt; at most    *)
(* one attempt is unfinished, the one being awaited.                       *)
AttemptsFollowList ==
    InApproveLoop =>
        /\ Len(dev.attempts) <= Len(dev.pending)
        /\ dev.attempts = SubSeq(dev.pending, 1, Len(dev.attempts))
        /\ RequestIds(dev.results) = SubSeq(dev.pending, 1, Len(dev.results))
        /\ Len(dev.attempts) - Len(dev.results) =
              (IF dev.pc = "approve_wait" THEN 1 ELSE 0)

(* The response: every pending device was attempted once, and is either    *)
(* among the approved ids or among the failed entries, never both.         *)
ResponsePartitionsList ==
    (InApproveLoop /\ dev.pc = "done") =>
        /\ dev.attempts = dev.pending
        /\ dev.ret.status = 200
        /\ LET approved == Ids(dev.ret.body.approved)
               failed == Ids(RequestIds(dev.ret.body.failed))
           IN /\ approved \cup failed = Ids(dev.pending)
              /\ approved \cap failed = {}
              /\ Len(dev.ret.body.approved) + Len(dev.ret.body.failed)
                    = Len(dev.pending)

(* An approve command is attempted only when every earlier attempt has     *)
(* ended, with a result pushed, whether it succeeded, failed or timed out. *)
AttemptsOneAtATime ==
    (dev.pc # "idle" /\ dev'.pc # "idle" /\ dev'.attempts # dev.attempts) =>
        /\ Len(dev.results) = Len(dev.attempts)
        /\ dev'.attempts = Append(dev.attempts, dev.pending[Len(dev.attempts) + 1])

(* C39: approve-all attempts the approve command of each pending device    *)
(* once, in list order, starting one only when the attempt before it has   *)
(* ended; a failure or timeout is recorded and the loop goes on; in the    *)
(* response the approved ids and the failed entries partition the pending  *)
(* list.                                                                   *)
C39_ApproveAllInOrder ==
    /\ [](AttemptsFollowList /\ ResponsePartitionsList)
    /\ [][AttemptsOneAtATime]_vars

(* C39 witness: two devices pending; the wait for the first timed out, the *)
(* second was approved after it; the response lists the second as approved *)
(* and the first as failed.                                                *)
C39_Witness ==
    /\ InApproveLoop /\ dev.pc = "done"
    /\ dev.pending = << "r1", "r2" >>
    /\ dev.ret.body.approved = << "r2" >>
    /\ dev.ret.body.failed =
         << [requestId |-> "r1", success |-> FALSE,
             error |-> ErrorMessage(TimeoutError)] >>

(* C33: whatever relative path a note tool is given, ".." segments         *)
(* included, every path it reads, creates, writes, searches or lists is    *)
(* the vault directory or lies below it; a call that answers "outside      *)
(* vault directory" has made no file-system call.                          *)
C33_NoteToolsStayInVault ==
    note.pc # "idle" =>
        /\ \A t \in note.touched : InsideVault(t.path)
        /\ (note.pc = "done" /\ note.ret = [error |-> "outside vault directory"])
              => note.touched = {}

====
